---- MODULE Spec2Model ----
(***************************************************************************)
(* Model of the fetch stage of the job pipeline (fetcher.py): fingerprint, *)
(* deduplication, URL liveness check, relevance scoring, filter engine,    *)
(* the seen-state ledger and the run() pipeline that ties them together.   *)
(*                                                                         *)
(* A Python str is modelled as a sequence of one-character strings, so     *)
(* that lower(), strip(), "in", count() and slicing are computed and not   *)
(* assumed.  The character set is ASCII.                                   *)
(***************************************************************************)
EXTENDS Integers, Sequences, FiniteSets, TLC

----------------------------------------------------------------------------
(* Characters and the str methods the fetch stage uses *)

UpperLetters ==
    <<"A", "B", "C", "D", "E", "F", "G", "H", "I", "J", "K", "L", "M", "N", "O", "P", "Q", "R", "S", "T", "U", "V", "W", "X", "Y", "Z">>

LowerLetters ==
    <<"a", "b", "c", "d", "e", "f", "g", "h", "i", "j", "k", "l", "m", "n", "o", "p", "q", "r", "s", "t", "u", "v", "w", "x", "y", "z">>

Digits ==
    <<"0", "1", "2", "3", "4", "5", "6", "7", "8", "9">>

\* every character a modelled string may contain, in a fixed order
Alphabet ==
    <<"0", "1", "2", "3", "4", "5", "6", "7", "8", "9", "a", "b", "c", "d", "e", "f", "g", "h", "i", "j", "k", "l", "m", "n", "o", "p", "q", "r", "s", "t", "u", "v", "w", "x", "y", "z", "A", "B", "C", "D", "E", "F", "G", "H", "I", "J", "K", "L">> \o
    <<"M", "N", "O", "P", "Q", "R", "S", "T", "U", "V", "W", "X", "Y", "Z", "!", "\"", "#", "$", "%", "&", "'", "(", ")", "*", "+", ",", "-", ".", "/", ":", ";", "<", "=", ">", "?", "@", "[", "\\", "]", "^", "_", "{", "|", "}", "~", " ", "\t", "\n">>

\* the characters str.strip() removes
Whitespace == {" ", "\t", "\n"}

RangeOf(s) == {s[i] : i \in 1..Len(s)}

SetMin(S) == CHOOSE x \in S : \A y \in S : x <= y

SetMax(S) == CHOOSE x \in S : \A y \in S : x >= y

IntMin(a, b) == IF a <= b THEN a ELSE b

IntMax(a, b) == IF a >= b THEN a ELSE b

LowerChar(c) ==
    IF \E i \in 1..Len(UpperLetters) : UpperLetters[i] = c
    THEN LowerLetters[CHOOSE i \in 1..Len(UpperLetters) : UpperLetters[i] = c]
    ELSE c

\* LowerChar tabulated over the alphabet
LowerMap == [c \in RangeOf(Alphabet) |-> LowerChar(c)]

RECURSIVE lower(_)
\* str.lower()
lower(s) ==
    IF s = <<>> THEN <<>> ELSE <<LowerMap[Head(s)]>> \o lower(Tail(s))

RECURSIVE lstrip(_)
\* str.lstrip()
lstrip(s) ==
    IF s # <<>> /\ Head(s) \in Whitespace THEN lstrip(Tail(s)) ELSE s

RECURSIVE rstrip(_)
\* str.rstrip()
rstrip(s) ==
    IF s # <<>> /\ s[Len(s)] \in Whitespace THEN rstrip(SubSeq(s, 1, Len(s) - 1)) ELSE s

\* str.strip()
strip(s) == rstrip(lstrip(s))

\* s.startswith(prefix)
startswith(s, prefix) ==
    /\ Len(prefix) <= Len(s)
    /\ SubSeq(s, 1, Len(prefix)) = prefix

\* the positions (0-based offsets) at which needle occurs in hay
Occurrences(hay, needle) ==
    {i \in 0..(Len(hay) - Len(needle)) : SubSeq(hay, i + 1, i + Len(needle)) = needle}

\* needle in hay
Contains(hay, needle) == Occurrences(hay, needle) # {}

RECURSIVE CountFrom(_, _, _)
\* the occurrences among occ counted from offset from on, each one ending
\* before the next begins
CountFrom(occ, width, from) ==
    LET rest == {i \in occ : i >= from}
    IN  IF rest = {} THEN 0
        ELSE 1 + CountFrom(rest, width, SetMin(rest) + width)

\* hay.count(needle): non-overlapping occurrences, left to right
count(hay, needle) == CountFrom(Occurrences(hay, needle), IntMax(Len(needle), 1), 0)

\* the byte value of a character: its position in the alphabet
CharCode == [c \in RangeOf(Alphabet) |-> CHOOSE i \in 1..Len(Alphabet) : Alphabet[i] = c]

----------------------------------------------------------------------------
(* Fingerprinter *)

\* the digest keeps 16 hex digits of a SHA-256; the model keeps a digest
\* modulo HashMod of the same bytes
HashMod == 1000003

HashMul == 131

RECURSIVE Sha256Hex16(_)
Sha256Hex16(s) ==
    IF s = <<>> THEN 7
    ELSE (Sha256Hex16(SubSeq(s, 1, Len(s) - 1)) * HashMul + CharCode[s[Len(s)]]) % HashMod

\* variant: the title and the company are lowercased but not stripped
job_fingerprint_unstripped(title, company) ==
    Sha256Hex16(lower(title) \o <<"|">> \o lower(company))

job_fingerprint(title, company) ==
    LET normalized == strip(lower(title)) \o <<"|">> \o strip(lower(company))
    IN  Sha256Hex16(normalized)

----------------------------------------------------------------------------
(* Deduplicator *)

\* a job record before deduplicate() has no "fingerprint" key
NoFingerprint == 0 - 1

RECURSIVE DedupFrom_keep_last(_, _, _)
\* variant: a later duplicate replaces the record kept for its fingerprint
DedupFrom_keep_last(jobs, seen, unique) ==
    IF jobs = <<>> THEN unique
    ELSE LET job == Head(jobs)
             fp == job_fingerprint(job.title, job.company)
             stamped == [job EXCEPT !.fingerprint = fp]
         IN  IF fp \notin seen
             THEN DedupFrom_keep_last(Tail(jobs), seen \cup {fp}, Append(unique, stamped))
             ELSE DedupFrom_keep_last(Tail(jobs), seen,
                      [i \in 1..Len(unique) |->
                          IF unique[i].fingerprint = fp THEN stamped ELSE unique[i]])

RECURSIVE DedupFrom_forgetful(_, _, _)
\* variant: meeting a duplicate removes its fingerprint from seen
DedupFrom_forgetful(jobs, seen, unique) ==
    IF jobs = <<>> THEN unique
    ELSE LET job == Head(jobs)
             fp == job_fingerprint(job.title, job.company)
         IN  IF fp \notin seen
             THEN DedupFrom_forgetful(Tail(jobs), seen \cup {fp},
                                      Append(unique, [job EXCEPT !.fingerprint = fp]))
             ELSE DedupFrom_forgetful(Tail(jobs), seen \ {fp}, unique)

RECURSIVE DedupFrom(_, _, _)
\* the loop of deduplicate(): seen is the dict of fingerprints met so far,
\* unique the list built so far
DedupFrom(jobs, seen, unique) ==
    IF jobs = <<>> THEN unique
    ELSE LET job == Head(jobs)
             fp == job_fingerprint(job.title, job.company)
         IN  IF fp \notin seen
             THEN DedupFrom(Tail(jobs), seen \cup {fp},
                            Append(unique, [job EXCEPT !.fingerprint = fp]))
             ELSE DedupFrom(Tail(jobs), seen, unique)

deduplicate(jobs) == DedupFrom(jobs, {}, <<>>)

----------------------------------------------------------------------------
(* URL liveness checker *)

RECURSIVE IntToStr(_)
\* str(n) for n >= 0
IntToStr(n) ==
    IF n < 10 THEN <<Digits[n + 1]>>
    ELSE IntToStr(n \div 10) \o <<Digits[(n % 10) + 1]>>

_EXPIRED_PHRASES == <<
    <<"t", "h", "i", "s", " ", "j", "o", "b", " ", "h", "a", "s", " ", "e", "x", "p", "i", "r", "e", "d">>,
    <<"t", "h", "i", "s", " ", "p", "o", "s", "i", "t", "i", "o", "n", " ", "h", "a", "s", " ", "b", "e", "e", "n", " ", "f", "i", "l", "l", "e", "d">>,
    <<"n", "o", " ", "l", "o", "n", "g", "e", "r", " ", "a", "v", "a", "i", "l", "a", "b", "l", "e">>,
    <<"n", "o", " ", "l", "o", "n", "g", "e", "r", " ", "a", "c", "c", "e", "p", "t", "i", "n", "g", " ", "a", "p", "p", "l", "i", "c", "a", "t", "i", "o", "n", "s">>,
    <<"j", "o", "b", " ", "n", "o", "t", " ", "f", "o", "u", "n", "d">>,
    <<"p", "o", "s", "t", "i", "n", "g", " ", "h", "a", "s", " ", "b", "e", "e", "n", " ", "r", "e", "m", "o", "v", "e", "d">>,
    <<"t", "h", "i", "s", " ", "l", "i", "s", "t", "i", "n", "g", " ", "h", "a", "s", " ", "e", "x", "p", "i", "r", "e", "d">>,
    <<"p", "o", "s", "i", "t", "i", "o", "n", " ", "i", "s", " ", "n", "o", " ", "l", "o", "n", "g", "e", "r", " ", "a", "v", "a", "i", "l", "a", "b", "l", "e">>,
    <<"j", "o", "b", " ", "h", "a", "s", " ", "b", "e", "e", "n", " ", "c", "l", "o", "s", "e", "d">>,
    <<"t", "h", "i", "s", " ", "j", "o", "b", " ", "i", "s", " ", "n", "o", " ", "l", "o", "n", "g", "e", "r", " ", "a", "c", "t", "i", "v", "e">>,
    <<"t", "h", "e", " ", "j", "o", "b", " ", "y", "o", "u", " ", "a", "r", "e", " ", "l", "o", "o", "k", "i", "n", "g", " ", "f", "o", "r", " ", "i", "s", " ", "n", "o", " ", "l", "o", "n", "g", "e", "r", " ", "a", "v", "a", "i", "l", "a", "b", "l", "e">>,
    <<"t", "h", "i", "s", " ", "o", "p", "p", "o", "r", "t", "u", "n", "i", "t", "y", " ", "i", "s", " ", "c", "l", "o", "s", "e", "d">> >>

\* resp.raw.read(50_000)
ReadLimit == 50000

\* the offset of the first character of s that is in stops, or Len(s)
FirstOf(s, stops) ==
    LET hits == {i \in 1..Len(s) : s[i] \in stops}
    IN  IF hits = {} THEN Len(s) ELSE SetMin(hits) - 1

\* urlparse(u).path for a URL of the form scheme://netloc/path?query#fragment
\* (without "://" the whole string up to ? or # is the path)
UrlPath(u) ==
    LET sep == Occurrences(u, <<":", "/", "/">>)
        rest == IF sep = {} THEN u ELSE SubSeq(u, SetMin(sep) + 4, Len(u))
        afterNetloc == IF sep = {} THEN rest
                       ELSE SubSeq(rest, FirstOf(rest, {"/", "?", "#"}) + 1, Len(rest))
    IN  SubSeq(afterNetloc, 1, FirstOf(afterNetloc, {"?", "#"}))

\* variant: the trailing slashes of the path are kept
RStripSlash_kept(s) == s

\* s.rstrip("/")
RStripSlash(s) ==
    LET keep == {i \in 1..Len(s) : s[i] # "/"}
    IN  IF keep = {} THEN <<>> ELSE SubSeq(s, 1, SetMax(keep))

\* the phrases of _EXPIRED_PHRASES found in content, by index
ExpiredHits(content) ==
    {k \in 1..Len(_EXPIRED_PHRASES) : Contains(content, _EXPIRED_PHRASES[k])}

UrlResult(alive, reason) == [alive |-> alive, reason |-> reason, raised |-> FALSE]

\* an exception that leaves check_url_alive
UrlRaised == [alive |-> FALSE, reason |-> <<>>, raised |-> TRUE]

\* variant: only 404 is treated as a hard failure
HardFailure_only404(status) == status = 404

\* resp.status_code in (404, 410)
HardFailure(status) == status \in {404, 410}

\* check_url_alive(url) gets past its first return and calls requests.get
IssuesRequest(url) == url # <<>> /\ startswith(url, <<"h", "t", "t", "p">>)

\* check_url_alive(url); probe is what requests.get and the body read do:
\* kind "response" (status, final url, body, read_fails), "timeout" or "error"
check_url_alive(url, probe) ==
    IF url = <<>> \/ ~startswith(url, <<"h", "t", "t", "p">>)
    THEN UrlResult(TRUE, <<"n", "o", "_", "u", "r", "l">>)
    ELSE IF probe.kind = "timeout" THEN UrlResult(TRUE, <<"t", "i", "m", "e", "o", "u", "t">>)
    ELSE IF probe.kind = "error" THEN UrlResult(TRUE, <<"e", "r", "r", "o", "r">>)
    ELSE IF HardFailure(probe.status)
    THEN UrlResult(FALSE, <<"h", "t", "t", "p", "_">> \o IntToStr(probe.status))
    ELSE IF /\ probe.status \in {200, 301, 302}
            /\ probe.url # <<>>
            /\ RStripSlash(UrlPath(probe.url)) = <<>>
            /\ url # probe.url
    THEN UrlResult(FALSE, <<"r", "e", "d", "i", "r", "e", "c", "t", "_", "t", "o", "_", "h", "o", "m", "e", "p", "a", "g", "e">>)
    ELSE IF probe.status = 200
    THEN IF probe.read_fails THEN UrlRaised
         ELSE LET content == lower(SubSeq(probe.body, 1, IntMin(Len(probe.body), ReadLimit)))
              IN  IF ExpiredHits(content) # {}
                  THEN UrlResult(FALSE, <<"c", "o", "n", "t", "e", "n", "t", ":">> \o _EXPIRED_PHRASES[SetMin(ExpiredHits(content))])
                  ELSE UrlResult(TRUE, <<"o", "k">>)
    ELSE UrlResult(TRUE, <<"h", "t", "t", "p", "_">> \o IntToStr(probe.status))

----------------------------------------------------------------------------
(* Relevance scorer.  A Python float is modelled as a fraction             *)
(* <<numerator, denominator>> with a positive denominator, and every float *)
(* operation rounds its exact result to the nearest float, ties to even,   *)
(* as IEEE 754 arithmetic does.                                            *)

RECURSIVE Gcd(_, _)
Gcd(a, b) == IF b = 0 THEN a ELSE Gcd(b, a % b)

Frac(n, d) ==
    LET g == Gcd(IF n < 0 THEN 0 - n ELSE n, d)
    IN  IF g = 0 THEN <<0, 1>> ELSE <<n \div g, d \div g>>

FracAdd(a, b) == Frac(a[1] * b[2] + b[1] * a[2], a[2] * b[2])

FracSub(a, b) == Frac(a[1] * b[2] - b[1] * a[2], a[2] * b[2])

FracMul(a, b) == Frac(a[1] * b[1], a[2] * b[2])

\* a / b for b > 0
FracDiv(a, b) == Frac(a[1] * b[2], a[2] * b[1])

FracLess(a, b) == a[1] * b[2] < b[1] * a[2]

FracMax(a, b) == IF FracLess(a, b) THEN b ELSE a

FracMin(a, b) == IF FracLess(b, a) THEN b ELSE a

\* the significand of a float has this many bits (53 in the interpreter, whose
\* rounding is the same at a width the model checker's integers cannot hold)
MantissaBits == 4

RECURSIVE Pow2(_)
Pow2(k) == IF k = 0 THEN 1 ELSE 2 * Pow2(k - 1)

\* a significand m satisfies MinSignificand <= m < MaxSignificand
MinSignificand == Pow2(MantissaBits - 1)

MaxSignificand == Pow2(MantissaBits)

RECURSIVE RoundScaled(_, _, _)
\* the float nearest to (n / d) * 2^e for n > 0, ties to the even significand
RoundScaled(n, d, e) ==
    IF n < MinSignificand * d THEN RoundScaled(2 * n, d, e - 1)
    ELSE IF n >= MaxSignificand * d THEN RoundScaled(n, 2 * d, e + 1)
    ELSE LET m == n \div d
             r == n % d
             significand == IF 2 * r > d \/ (2 * r = d /\ m % 2 = 1) THEN m + 1 ELSE m
         IN  IF e >= 0 THEN Frac(significand * Pow2(e), 1)
             ELSE Frac(significand, Pow2(0 - e))

\* the float nearest to the fraction q
Fl(q) ==
    IF q[1] = 0 THEN <<0, 1>>
    ELSE IF q[1] > 0 THEN RoundScaled(q[1], q[2], 0)
    ELSE LET r == RoundScaled(0 - q[1], q[2], 0) IN <<0 - r[1], r[2]>>

\* float +, -, * and /
FlAdd(a, b) == Fl(FracAdd(a, b))

FlSub(a, b) == Fl(FracSub(a, b))

FlMul(a, b) == Fl(FracMul(a, b))

FlDiv(a, b) == Fl(FracDiv(a, b))

RECURSIVE FlSumFrom(_, _)
\* sum(values) continued from acc: left to right, rounding after each addition
\* (the builtin sum of CPython 3.9 to 3.11; later versions compensate the error)
FlSumFrom(acc, values) ==
    IF values = <<>> THEN acc
    ELSE FlSumFrom(FlAdd(acc, Head(values)), Tail(values))

FlSum(values) == FlSumFrom(<<0, 1>>, values)

RECURSIVE IntSum(_)
IntSum(ns) == IF ns = <<>> THEN 0 ELSE Head(ns) + IntSum(Tail(ns))

\* density is normalised against this many occurrences
DensityCap == 20

WordChars ==
    RangeOf(UpperLetters) \cup RangeOf(LowerLetters) \cup RangeOf(Digits) \cup {"_"}

\* \b at offset pos of s: exactly one of the neighbours is a word character
WordBoundary(s, pos) ==
    LET before == pos >= 1 /\ s[pos] \in WordChars
        after == pos < Len(s) /\ s[pos + 1] \in WordChars
    IN  before # after

\* re.search(rf"\b{re.escape(word)}\b", s)
SearchWord(s, word) ==
    \E i \in Occurrences(s, word) :
        WordBoundary(s, i) /\ WordBoundary(s, i + Len(word))

\* "\n".join(s.split("\n")[:n])
FirstLines(s, n) ==
    LET breaks == {i \in 1..Len(s) : s[i] = "\n"}
    IN  IF Cardinality(breaks) < n THEN s
        ELSE SubSeq(s, 1, (CHOOSE i \in breaks :
                              Cardinality({j \in breaks : j < i}) = n - 1) - 1)

\* min(density / 20, 1.0)
DensityNorm(density) == FracMin(Fl(Frac(density, DensityCap)), <<1, 1>>)

\* the literals 0.7, 0.3 and 0.1
Float07 == Fl(<<7, 10>>)

Float03 == Fl(<<3, 10>>)

Float01 == Fl(<<1, 10>>)

\* the score of one focus area with a non-empty keyword list
AreaScore(area, text_lower) ==
    LET keywords == area.keywords
        matched == {k \in 1..Len(keywords) : Contains(text_lower, lower(keywords[k]))}
        breadth == Fl(Frac(Cardinality(matched), Len(keywords)))
        density == IntSum([k \in 1..Len(keywords) |->
                              IF k \in matched THEN count(text_lower, lower(keywords[k]))
                              ELSE 0])
        density_norm == DensityNorm(density)
    IN  FlMul(FlAdd(FlMul(breadth, Float07), FlMul(density_norm, Float03)),
              area.weight)

RECURSIVE DictPut(_, _)
\* area_scores[e.name] = e.score: a name the dict already holds keeps its
\* place and takes the new score, a new name goes to the end
DictPut(area_scores, e) ==
    IF area_scores = <<>> THEN <<e>>
    ELSE IF Head(area_scores).name = e.name THEN <<e>> \o Tail(area_scores)
    ELSE <<Head(area_scores)>> \o DictPut(Tail(area_scores), e)

RECURSIVE AreaScores(_, _, _)
\* the loop over focus_areas, continued from the dict area_scores: an area
\* without keywords is skipped
AreaScores(focus_areas, text_lower, area_scores) ==
    IF focus_areas = <<>> THEN area_scores
    ELSE LET area == Head(focus_areas)
         IN  AreaScores(Tail(focus_areas), text_lower,
                        IF area.keywords = <<>> THEN area_scores
                        ELSE DictPut(area_scores,
                                     [name |-> area.name,
                                      score |-> AreaScore(area, text_lower)]))

RECURSIVE Weights(_)
\* a.get("weight", 1) for a in focus_areas
Weights(focus_areas) ==
    IF focus_areas = <<>> THEN <<>>
    ELSE <<Head(focus_areas).weight>> \o Weights(Tail(focus_areas))

RECURSIVE DictValues(_)
\* area_scores.values()
DictValues(area_scores) ==
    IF area_scores = <<>> THEN <<>>
    ELSE <<Head(area_scores).score>> \o DictValues(Tail(area_scores))

\* variant: a body match is charged on top of a title match
anti_penalty_stacked(jd_text, title, anti_signals) ==
    LET inTitle == \E i \in 1..Len(anti_signals) :
                      SearchWord(lower(title), lower(anti_signals[i]))
        inHeader == \E i \in 1..Len(anti_signals) :
                       SearchWord(lower(FirstLines(jd_text, 5)), lower(anti_signals[i]))
    IN  FlAdd(IF inTitle THEN <<1, 2>> ELSE <<0, 1>>,
              IF inHeader THEN Float01 ELSE <<0, 1>>)

anti_penalty(jd_text, title, anti_signals) ==
    IF anti_signals = <<>> THEN <<0, 1>>
    ELSE IF \E i \in 1..Len(anti_signals) : SearchWord(lower(title), lower(anti_signals[i]))
    THEN <<1, 2>>
    ELSE IF \E i \in 1..Len(anti_signals) :
                SearchWord(lower(FirstLines(jd_text, 5)), lower(anti_signals[i]))
    THEN Float01
    ELSE <<0, 1>>

\* variant: the penalty is charged before the opt-in test
compute_relevance_score_always_penalised(jd_text, title, relevance_config) ==
    [score |-> FracMax(FlSub(<<1, 1>>,
                             anti_penalty(jd_text, title, relevance_config.anti_signals)),
                       <<0, 1>>),
     breakdown |-> <<>>]

compute_relevance_score(jd_text, title, relevance_config) ==
    LET focus_areas == relevance_config.focus_areas
        text_lower == lower(jd_text)
        total_weight == FlSum(Weights(focus_areas))
        area_scores == AreaScores(focus_areas, text_lower, <<>>)
        sum == FlSum(DictValues(area_scores))
        total_weighted == IF total_weight[1] # 0 THEN FlDiv(sum, total_weight) ELSE <<0, 1>>
        penalty == anti_penalty(jd_text, title, relevance_config.anti_signals)
    IN  IF focus_areas = <<>>
        THEN [score |-> <<1, 1>>, breakdown |-> <<>>]
        ELSE [score |-> FracMax(FlSub(total_weighted, penalty), <<0, 1>>),
              breakdown |-> area_scores]

----------------------------------------------------------------------------
(* Province policy and filter engine *)

\* <<abbreviation, province>> in dict order
PROVINCE_ABBREVIATIONS == <<
    <<<<"A", "B">>, <<"A", "l", "b", "e", "r", "t", "a">>>>,
    <<<<"B", "C">>, <<"B", "r", "i", "t", "i", "s", "h", " ", "C", "o", "l", "u", "m", "b", "i", "a">>>>,
    <<<<"M", "B">>, <<"M", "a", "n", "i", "t", "o", "b", "a">>>>,
    <<<<"N", "B">>, <<"N", "e", "w", " ", "B", "r", "u", "n", "s", "w", "i", "c", "k">>>>,
    <<<<"N", "L">>, <<"N", "e", "w", "f", "o", "u", "n", "d", "l", "a", "n", "d", " ", "a", "n", "d", " ", "L", "a", "b", "r", "a", "d", "o", "r">>>>,
    <<<<"N", "T">>, <<"N", "o", "r", "t", "h", "w", "e", "s", "t", " ", "T", "e", "r", "r", "i", "t", "o", "r", "i", "e", "s">>>>,
    <<<<"N", "S">>, <<"N", "o", "v", "a", " ", "S", "c", "o", "t", "i", "a">>>>,
    <<<<"N", "U">>, <<"N", "u", "n", "a", "v", "u", "t">>>>,
    <<<<"O", "N">>, <<"O", "n", "t", "a", "r", "i", "o">>>>,
    <<<<"P", "E">>, <<"P", "r", "i", "n", "c", "e", " ", "E", "d", "w", "a", "r", "d", " ", "I", "s", "l", "a", "n", "d">>>>,
    <<<<"Q", "C">>, <<"Q", "u", "e", "b", "e", "c">>>>,
    <<<<"S", "K">>, <<"S", "a", "s", "k", "a", "t", "c", "h", "e", "w", "a", "n">>>>,
    <<<<"Y", "T">>, <<"Y", "u", "k", "o", "n">>>> >>

\* <<alias, province>> in dict order (the accented spelling of Montreal is
\* outside the modelled character set and left out)
PROVINCE_REGIONAL_ALIASES == <<
    <<<<"G", "T", "A">>, <<"O", "n", "t", "a", "r", "i", "o">>>>,
    <<<<"G", "r", "e", "a", "t", "e", "r", " ", "T", "o", "r", "o", "n", "t", "o">>, <<"O", "n", "t", "a", "r", "i", "o">>>>,
    <<<<"T", "o", "r", "o", "n", "t", "o">>, <<"O", "n", "t", "a", "r", "i", "o">>>>,
    <<<<"O", "t", "t", "a", "w", "a">>, <<"O", "n", "t", "a", "r", "i", "o">>>>,
    <<<<"M", "i", "s", "s", "i", "s", "s", "a", "u", "g", "a">>, <<"O", "n", "t", "a", "r", "i", "o">>>>,
    <<<<"H", "a", "m", "i", "l", "t", "o", "n">>, <<"O", "n", "t", "a", "r", "i", "o">>>>,
    <<<<"K", "i", "t", "c", "h", "e", "n", "e", "r">>, <<"O", "n", "t", "a", "r", "i", "o">>>>,
    <<<<"W", "a", "t", "e", "r", "l", "o", "o">>, <<"O", "n", "t", "a", "r", "i", "o">>>>,
    <<<<"L", "o", "n", "d", "o", "n", ",", " ", "O", "N">>, <<"O", "n", "t", "a", "r", "i", "o">>>>,
    <<<<"G", "r", "e", "a", "t", "e", "r", " ", "V", "a", "n", "c", "o", "u", "v", "e", "r">>, <<"B", "r", "i", "t", "i", "s", "h", " ", "C", "o", "l", "u", "m", "b", "i", "a">>>>,
    <<<<"V", "a", "n", "c", "o", "u", "v", "e", "r">>, <<"B", "r", "i", "t", "i", "s", "h", " ", "C", "o", "l", "u", "m", "b", "i", "a">>>>,
    <<<<"V", "i", "c", "t", "o", "r", "i", "a">>, <<"B", "r", "i", "t", "i", "s", "h", " ", "C", "o", "l", "u", "m", "b", "i", "a">>>>,
    <<<<"S", "u", "r", "r", "e", "y">>, <<"B", "r", "i", "t", "i", "s", "h", " ", "C", "o", "l", "u", "m", "b", "i", "a">>>>,
    <<<<"C", "a", "l", "g", "a", "r", "y">>, <<"A", "l", "b", "e", "r", "t", "a">>>>,
    <<<<"E", "d", "m", "o", "n", "t", "o", "n">>, <<"A", "l", "b", "e", "r", "t", "a">>>>,
    <<<<"M", "o", "n", "t", "r", "e", "a", "l">>, <<"Q", "u", "e", "b", "e", "c">>>>,
    <<<<"Q", "u", "e", "b", "e", "c", " ", "C", "i", "t", "y">>, <<"Q", "u", "e", "b", "e", "c">>>>,
    <<<<"W", "i", "n", "n", "i", "p", "e", "g">>, <<"M", "a", "n", "i", "t", "o", "b", "a">>>>,
    <<<<"S", "a", "s", "k", "a", "t", "o", "o", "n">>, <<"S", "a", "s", "k", "a", "t", "c", "h", "e", "w", "a", "n">>>>,
    <<<<"R", "e", "g", "i", "n", "a">>, <<"S", "a", "s", "k", "a", "t", "c", "h", "e", "w", "a", "n">>>>,
    <<<<"H", "a", "l", "i", "f", "a", "x">>, <<"N", "o", "v", "a", " ", "S", "c", "o", "t", "i", "a">>>>,
    <<<<"F", "r", "e", "d", "e", "r", "i", "c", "t", "o", "n">>, <<"N", "e", "w", " ", "B", "r", "u", "n", "s", "w", "i", "c", "k">>>>,
    <<<<"S", "a", "i", "n", "t", " ", "J", "o", "h", "n">>, <<"N", "e", "w", " ", "B", "r", "u", "n", "s", "w", "i", "c", "k">>>>,
    <<<<"S", "t", ".", " ", "J", "o", "h", "n", "'", "s">>, <<"N", "e", "w", "f", "o", "u", "n", "d", "l", "a", "n", "d", " ", "a", "n", "d", " ", "L", "a", "b", "r", "a", "d", "o", "r">>>>,
    <<<<"C", "h", "a", "r", "l", "o", "t", "t", "e", "t", "o", "w", "n">>, <<"P", "r", "i", "n", "c", "e", " ", "E", "d", "w", "a", "r", "d", " ", "I", "s", "l", "a", "n", "d">>>>,
    <<<<"W", "h", "i", "t", "e", "h", "o", "r", "s", "e">>, <<"Y", "u", "k", "o", "n">>>>,
    <<<<"Y", "e", "l", "l", "o", "w", "k", "n", "i", "f", "e">>, <<"N", "o", "r", "t", "h", "w", "e", "s", "t", " ", "T", "e", "r", "r", "i", "t", "o", "r", "i", "e", "s">>>>,
    <<<<"I", "q", "a", "l", "u", "i", "t">>, <<"N", "u", "n", "a", "v", "u", "t">>>> >>

PROVINCES == <<
    <<"A", "l", "b", "e", "r", "t", "a">>,
    <<"B", "r", "i", "t", "i", "s", "h", " ", "C", "o", "l", "u", "m", "b", "i", "a">>,
    <<"M", "a", "n", "i", "t", "o", "b", "a">>,
    <<"N", "e", "w", " ", "B", "r", "u", "n", "s", "w", "i", "c", "k">>,
    <<"N", "e", "w", "f", "o", "u", "n", "d", "l", "a", "n", "d", " ", "a", "n", "d", " ", "L", "a", "b", "r", "a", "d", "o", "r">>,
    <<"N", "o", "r", "t", "h", "w", "e", "s", "t", " ", "T", "e", "r", "r", "i", "t", "o", "r", "i", "e", "s">>,
    <<"N", "o", "v", "a", " ", "S", "c", "o", "t", "i", "a">>,
    <<"N", "u", "n", "a", "v", "u", "t">>,
    <<"O", "n", "t", "a", "r", "i", "o">>,
    <<"P", "r", "i", "n", "c", "e", " ", "E", "d", "w", "a", "r", "d", " ", "I", "s", "l", "a", "n", "d">>,
    <<"Q", "u", "e", "b", "e", "c">>,
    <<"S", "a", "s", "k", "a", "t", "c", "h", "e", "w", "a", "n">>,
    <<"Y", "u", "k", "o", "n">> >>

\* prov.lower() and alias.lower() of the two tables
ProvincesLower == [i \in 1..Len(PROVINCES) |-> lower(PROVINCES[i])]

AliasesLower ==
    [i \in 1..Len(PROVINCE_REGIONAL_ALIASES) |-> lower(PROVINCE_REGIONAL_ALIASES[i][1])]

\* the first index of table whose entry satisfies Hit, or 0
FirstIndex(n, Hit(_)) ==
    LET hits == {i \in 1..n : Hit(i)}
    IN  IF hits = {} THEN 0 ELSE SetMin(hits)

_extract_province(location) ==
    LET loc_lower == lower(location)
        byName(i) == Contains(loc_lower, ProvincesLower[i])
        byAbbr(i) == SearchWord(location, PROVINCE_ABBREVIATIONS[i][1])
        byAlias(i) == Contains(loc_lower, AliasesLower[i])
        n1 == FirstIndex(Len(PROVINCES), byName)
        n2 == FirstIndex(Len(PROVINCE_ABBREVIATIONS), byAbbr)
        n3 == FirstIndex(Len(PROVINCE_REGIONAL_ALIASES), byAlias)
    IN  IF location = <<>> THEN <<>>
        ELSE IF n1 # 0 THEN PROVINCES[n1]
        ELSE IF n2 # 0 THEN PROVINCE_ABBREVIATIONS[n2][2]
        ELSE IF n3 # 0 THEN PROVINCE_REGIONAL_ALIASES[n3][2]
        ELSE <<>>

\* variant: cues in the description count as well
_job_is_remote_any_text(job) ==
    \/ job.is_remote
    \/ Contains(lower(job.title), <<"r", "e", "m", "o", "t", "e">>)
    \/ Contains(lower(job.description), <<"r", "e", "m", "o", "t", "e">>)

_job_is_remote(job) ==
    \/ job.is_remote
    \/ Contains(lower(job.title), <<"r", "e", "m", "o", "t", "e">>)

\* variant: the blocklist entry is compared as written
matches_filters_exact_case(job, filters, candidate_province) ==
    LET description == lower(job.description)
        title == lower(job.title)
        company == lower(job.company)
        combined == title \o <<" ">> \o company \o <<" ">> \o description
        must == filters.must_contain
        job_sal == IF job.salary_max # 0 THEN job.salary_max ELSE job.salary_min
        apply_url == lower(job.apply_url)
        anyIn(list, hay) == \E i \in 1..Len(list) : Contains(hay, lower(list[i]))
        excluded == \E i \in 1..Len(filters.exclude_companies) :
                        Contains(company, filters.exclude_companies[i])
    IN  IF excluded THEN FALSE
        ELSE IF must # <<>> /\ ~anyIn(must, combined) THEN FALSE
        ELSE IF anyIn(filters.exclude_keywords, combined) THEN FALSE
        ELSE IF filters.min_salary # 0 /\ job_sal # 0 /\ job_sal < filters.min_salary THEN FALSE
        ELSE IF filters.include_domains # <<>> /\ ~anyIn(filters.include_domains, apply_url)
        THEN FALSE
        ELSE IF anyIn(filters.exclude_domains, apply_url) THEN FALSE
        ELSE IF /\ candidate_province # <<>>
                /\ ~_job_is_remote(job)
                /\ job.location # <<>>
                /\ ~Contains(lower(job.location), lower(candidate_province))
        THEN FALSE
        ELSE TRUE

\* a salary of None is modelled as 0; "x or y" treats both alike
matches_filters(job, filters, candidate_province) ==
    LET description == lower(job.description)
        title == lower(job.title)
        company == lower(job.company)
        combined == title \o <<" ">> \o company \o <<" ">> \o description
        must == filters.must_contain
        job_sal == IF job.salary_max # 0 THEN job.salary_max ELSE job.salary_min
        apply_url == lower(job.apply_url)
        anyIn(list, hay) == \E i \in 1..Len(list) : Contains(hay, lower(list[i]))
    IN  IF anyIn(filters.exclude_companies, company) THEN FALSE
        ELSE IF must # <<>> /\ ~anyIn(must, combined) THEN FALSE
        ELSE IF anyIn(filters.exclude_keywords, combined) THEN FALSE
        ELSE IF filters.min_salary # 0 /\ job_sal # 0 /\ job_sal < filters.min_salary THEN FALSE
        ELSE IF filters.include_domains # <<>> /\ ~anyIn(filters.include_domains, apply_url)
        THEN FALSE
        ELSE IF anyIn(filters.exclude_domains, apply_url) THEN FALSE
        ELSE IF /\ candidate_province # <<>>
                /\ ~_job_is_remote(job)
                /\ job.location # <<>>
                /\ ~Contains(lower(job.location), lower(candidate_province))
        THEN FALSE
        ELSE TRUE

----------------------------------------------------------------------------
(* Salary extraction from the description *)

\* The regular expressions of salary_patterns are sequences of tokens, matched
\* as re.search matches them: leftmost start, greedy repetition, alternatives
\* in their written order, backtracking on failure.  The en dash of the
\* patterns is outside Alphabet, so that alternative never fires here.
ReClass(chars, min, many) ==
    [kind |-> "class", chars |-> chars, min |-> min, many |-> many]

ReAlts(alts, optional) == [kind |-> "alts", alts |-> alts, optional |-> optional]

ReOpen == [kind |-> "open"]

ReClose == [kind |-> "close"]

\* (?:CA|CAD)?
ReCurrency == ReAlts(<<<<"C", "A">>, <<"C", "A", "D">>>>, TRUE)

\* \$
ReDollar == ReAlts(<<<<"$">>>>, FALSE)

\* \s*
ReSpaces == ReClass(Whitespace, 0, TRUE)

\* (?:-|to)
ReTo == ReAlts(<<<<"-">>, <<"t", "o">>>>, FALSE)

\* (\d[\d,]*)
ReAmount ==
    <<ReOpen, ReClass(RangeOf(Digits), 1, FALSE),
      ReClass(RangeOf(Digits) \cup {","}, 0, TRUE), ReClose>>

\* (\d+)\s*[kK]
ReThousands ==
    <<ReOpen, ReClass(RangeOf(Digits), 1, TRUE), ReClose, ReSpaces,
      ReClass({"k", "K"}, 1, FALSE)>>

salary_patterns == <<
    <<ReCurrency, ReDollar, ReSpaces>> \o ReAmount \o
        <<ReSpaces, ReTo, ReSpaces, ReCurrency, ReAlts(<<<<"$">>>>, TRUE), ReSpaces>> \o ReAmount,
    <<ReCurrency, ReDollar, ReSpaces>> \o ReThousands \o
        <<ReSpaces, ReTo, ReSpaces, ReCurrency, ReAlts(<<<<"$">>>>, TRUE), ReSpaces>> \o ReThousands,
    <<ReClass({"S", "s"}, 1, FALSE), ReAlts(<<<<"a", "l", "a", "r", "y">>>>, FALSE),
      ReClass(Whitespace \cup {":"}, 1, TRUE), ReCurrency, ReDollar, ReSpaces>> \o ReAmount,
    <<ReCurrency, ReDollar, ReSpaces>> \o ReAmount >>

RECURSIVE RunLength(_, _, _)
\* how many characters of text, from pos on, belong to chars
RunLength(text, pos, chars) ==
    IF pos > Len(text) \/ text[pos] \notin chars THEN 0
    ELSE 1 + RunLength(text, pos + 1, chars)

RECURSIVE MatchHere(_, _, _, _, _)
RECURSIVE TryRepeat(_, _, _, _, _, _, _)
RECURSIVE TryAlts(_, _, _, _, _, _, _)
\* the match of tokens at pos, as <<[groups, stop]>>, or <<>> when there is none
MatchHere(tokens, text, pos, open, groups) ==
    IF tokens = <<>> THEN <<[groups |-> groups, stop |-> pos]>>
    ELSE LET t == Head(tokens)
             rest == Tail(tokens)
         IN  IF t.kind = "open" THEN MatchHere(rest, text, pos, pos, groups)
             ELSE IF t.kind = "close"
             THEN MatchHere(rest, text, pos, open,
                            Append(groups, SubSeq(text, open, pos - 1)))
             ELSE IF t.kind = "class"
             THEN LET run == RunLength(text, pos, t.chars)
                      most == IF t.many THEN run ELSE IntMin(run, t.min)
                  IN  IF most < t.min THEN <<>>
                      ELSE TryRepeat(rest, text, pos, open, groups, most, t.min)
             ELSE TryAlts(t.alts, t.optional, rest, text, pos, open, groups)

\* greedy repetition: the longest run first, then shorter ones
TryRepeat(rest, text, pos, open, groups, k, min) ==
    LET m == MatchHere(rest, text, pos + k, open, groups)
    IN  IF m # <<>> THEN m
        ELSE IF k = min THEN <<>>
        ELSE TryRepeat(rest, text, pos, open, groups, k - 1, min)

\* alternatives in their order; an optional group is skipped last
TryAlts(alts, optional, rest, text, pos, open, groups) ==
    IF alts = <<>>
    THEN IF optional THEN MatchHere(rest, text, pos, open, groups) ELSE <<>>
    ELSE LET a == Head(alts)
             fits == /\ pos + Len(a) - 1 <= Len(text)
                     /\ SubSeq(text, pos, pos + Len(a) - 1) = a
             m == IF fits THEN MatchHere(rest, text, pos + Len(a), open, groups)
                  ELSE <<>>
         IN  IF m # <<>> THEN m
             ELSE TryAlts(Tail(alts), optional, rest, text, pos, open, groups)

RECURSIVE SearchFrom(_, _, _)
SearchFrom(tokens, text, start) ==
    IF start > Len(text) + 1 THEN <<>>
    ELSE LET m == MatchHere(tokens, text, start, start, <<>>)
         IN  IF m # <<>>
             THEN <<[groups |-> m[1].groups,
                     group0 |-> SubSeq(text, start, m[1].stop - 1)]>>
             ELSE SearchFrom(tokens, text, start + 1)

\* re.search(pattern, text): <<match>> or <<>>
re_search(tokens, text) == SearchFrom(tokens, text, 1)

DigitValue(c) == (CHOOSE i \in 1..Len(Digits) : Digits[i] = c) - 1

RECURSIVE IntFrom(_, _)
\* int(s.replace(",", "")), continued from acc
IntFrom(acc, s) ==
    IF s = <<>> THEN acc
    ELSE IF Head(s) = "," THEN IntFrom(acc, Tail(s))
    ELSE IntFrom(acc * 10 + DigitValue(Head(s)), Tail(s))

int(s) == IntFrom(0, s)

RECURSIVE split_lines(_)
\* s.split("\n")
split_lines(s) ==
    LET breaks == {i \in 1..Len(s) : s[i] = "\n"}
    IN  IF breaks = {} THEN <<s>>
        ELSE <<SubSeq(s, 1, SetMin(breaks) - 1)>>
                 \o split_lines(SubSeq(s, SetMin(breaks) + 1, Len(s)))

\* the floor below which an amount is not taken for an annual salary
SalaryFloor == 20000

\* one K of the K-notation
Thousand == 1000

HourlyMarkers == <<<<"/", "h", "o", "u", "r">>, <<"p", "e", "r", " ", "h", "o", "u", "r">>, <<"h", "o", "u", "r", "l", "y">>, <<"/", "h", "r">>>>

\* None is the empty tuple, a value v is <<v>>
Salary(salary_min, salary_max, raw) ==
    [salary_min |-> salary_min, salary_max |-> salary_max, raw |-> raw]

NoSalary == Salary(<<>>, <<>>, <<>>)

\* variant: the floor is asked of the first amount only
RangeSalary_first_only(val1, val2, raw) ==
    IF val1 >= SalaryFloor
    THEN <<Salary(<<IntMin(val1, val2)>>, <<IntMax(val1, val2)>>, raw)>>
    ELSE <<>>

\* a range is returned when both ends reach the floor
RangeSalary(val1, val2, raw) ==
    IF val1 >= SalaryFloor /\ val2 >= SalaryFloor
    THEN <<Salary(<<IntMin(val1, val2)>>, <<IntMax(val1, val2)>>, raw)>>
    ELSE <<>>

SingleSalary(val, raw) ==
    IF val >= SalaryFloor THEN <<Salary(<<val>>, <<>>, raw)>> ELSE <<>>

RECURSIVE SalaryFromPatterns(_, _)
\* the loop over salary_patterns for one line, from pattern i on:
\* <<salary>> when a pattern returns, <<>> when none does
SalaryFromPatterns(line, i) ==
    IF i > Len(salary_patterns) THEN <<>>
    ELSE LET match == re_search(salary_patterns[i], line)
             groups == match[1].groups
             found ==
                 IF match = <<>> THEN <<>>
                 ELSE IF i = 2
                 THEN RangeSalary(int(groups[1]) * Thousand, int(groups[2]) * Thousand,
                                  match[1].group0)
                 ELSE IF Len(groups) = 2
                 THEN RangeSalary(int(groups[1]), int(groups[2]), match[1].group0)
                 ELSE SingleSalary(int(groups[1]), match[1].group0)
         IN  IF found # <<>> THEN found ELSE SalaryFromPatterns(line, i + 1)

\* variant: only the markers written with a slash are looked for
IsHourly_slash_only(line) ==
    \E h \in {1, 4} : Contains(lower(line), HourlyMarkers[h])

IsHourly(line) ==
    \E h \in 1..Len(HourlyMarkers) : Contains(lower(line), HourlyMarkers[h])

RECURSIVE SalaryFromLines(_)
SalaryFromLines(lines) ==
    IF lines = <<>> THEN NoSalary
    ELSE LET found == IF IsHourly(Head(lines)) THEN <<>>
                      ELSE SalaryFromPatterns(Head(lines), 1)
         IN  IF found # <<>> THEN found[1] ELSE SalaryFromLines(Tail(lines))

_extract_salary_from_description(description) ==
    IF description = <<>> THEN NoSalary
    ELSE SalaryFromLines(split_lines(description))

----------------------------------------------------------------------------
(* strip_html: tags to text, as the source adapters apply it to a description *)

\* the offset after the first ">" of s at or after position from, or 0
CloseAfter(s, from) ==
    LET hits == {i \in from..Len(s) : s[i] = ">"}
    IN  IF hits = {} THEN 0 ELSE SetMin(hits)

\* s begins, in any case, with prefix
StartsWithNoCase(s, prefix) ==
    /\ Len(prefix) <= Len(s)
    /\ lower(SubSeq(s, 1, Len(prefix))) = prefix

\* the length of the match of one of strip_html's patterns at the start of
\* s, or 0 when it does not match there: "br" is <br\s*/?>, "li" is
\* <li[^>]*>, "p" is <p[^>]*>, "h" is <h[1-6][^>]*>, "/h" is </h[1-6]>
\* (all five IGNORECASE) and "tag" is <[^>]+>
TagMatch(rule, s) ==
    IF rule = "br"
    THEN IF ~StartsWithNoCase(s, <<"<", "b", "r">>) THEN 0
         ELSE LET rest == SubSeq(s, 4, Len(s))
                  spaces == FirstOf(rest, RangeOf(Alphabet) \ Whitespace)
                  slash == IF spaces < Len(rest) /\ rest[spaces + 1] = "/" THEN 1 ELSE 0
                  end == spaces + slash + 1
              IN  IF end <= Len(rest) /\ rest[end] = ">" THEN 3 + end ELSE 0
    ELSE IF rule = "li"
    THEN IF StartsWithNoCase(s, <<"<", "l", "i">>) THEN CloseAfter(s, 4) ELSE 0
    ELSE IF rule = "p"
    THEN IF StartsWithNoCase(s, <<"<", "p">>) THEN CloseAfter(s, 3) ELSE 0
    ELSE IF rule = "h"
    THEN IF StartsWithNoCase(s, <<"<", "h">>) /\ Len(s) >= 3 /\ s[3] \in {"1", "2", "3", "4", "5", "6"}
         THEN CloseAfter(s, 4) ELSE 0
    ELSE IF rule = "/h"
    THEN IF /\ StartsWithNoCase(s, <<"<", "/", "h">>)
            /\ Len(s) >= 5
            /\ s[4] \in {"1", "2", "3", "4", "5", "6"}
            /\ s[5] = ">"
         THEN 5 ELSE 0
    ELSE IF s # <<>> /\ Head(s) = "<" /\ Len(s) >= 2 /\ s[2] # ">"
         THEN CloseAfter(s, 3) ELSE 0

RECURSIVE SubTag(_, _, _)
\* re.sub(pattern, repl, s) for one of the patterns of strip_html
SubTag(rule, repl, s) ==
    IF s = <<>> THEN <<>>
    ELSE LET n == TagMatch(rule, s)
         IN  IF n > 0
             THEN repl \o SubTag(rule, repl, SubSeq(s, n + 1, Len(s)))
             ELSE <<Head(s)>> \o SubTag(rule, repl, Tail(s))

\* the character references the modelled texts contain
Entities ==
    <<[ref |-> <<"&", "a", "m", "p", ";">>, char |-> "&"],
      [ref |-> <<"&", "l", "t", ";">>, char |-> "<"],
      [ref |-> <<"&", "g", "t", ";">>, char |-> ">"]>>

RECURSIVE unescape(_)
\* html.unescape(s)
unescape(s) ==
    IF s = <<>> THEN <<>>
    ELSE LET hits == {e \in 1..Len(Entities) : startswith(s, Entities[e].ref)}
         IN  IF hits = {}
             THEN <<Head(s)>> \o unescape(Tail(s))
             ELSE LET e == Entities[SetMin(hits)]
                  IN  <<e.char>> \o unescape(SubSeq(s, Len(e.ref) + 1, Len(s)))

RECURSIVE CollapseBlankLines(_)
\* re.sub(r"\n{3,}", "\n\n", s)
CollapseBlankLines(s) ==
    IF s = <<>> THEN <<>>
    ELSE LET run == FirstOf(s, RangeOf(Alphabet) \ {"\n"})
         IN  IF run >= 3
             THEN <<"\n", "\n">> \o CollapseBlankLines(SubSeq(s, run + 1, Len(s)))
             ELSE <<Head(s)>> \o CollapseBlankLines(Tail(s))

\* the substitutions of strip_html, in the order it makes them
TagRules ==
    <<[rule |-> "br", repl |-> <<"\n">>],
      [rule |-> "li", repl |-> <<"\n", "-", " ">>],
      [rule |-> "p", repl |-> <<"\n", "\n">>],
      [rule |-> "h", repl |-> <<"\n", "#", "#", " ">>],
      [rule |-> "/h", repl |-> <<"\n">>],
      [rule |-> "tag", repl |-> <<>>]>>

RECURSIVE SubTags(_, _)
\* the substitutions made one after the other
SubTags(rules, s) ==
    IF rules = <<>> THEN s
    ELSE SubTags(Tail(rules), SubTag(Head(rules).rule, Head(rules).repl, s))

strip_html(html_text) ==
    IF html_text = <<>> THEN <<>>
    ELSE strip(CollapseBlankLines(unescape(SubTags(TagRules, html_text))))

----------------------------------------------------------------------------
(* Source adapters.  A value of a JSON object is a str or null, or its key *)
(* is absent; a number is an optional value, <<>> for null or absent.  An  *)
(* adapter is a function of the answers its requests get, in the order it  *)
(* sends them: a response with a status and its job items, or a network    *)
(* error (requests.ConnectionError, requests.Timeout).                     *)

PyStr(s) == [kind |-> "str", str |-> s]

PyNone == [kind |-> "None", str |-> <<>>]

NoKey == [kind |-> "absent", str |-> <<>>]

\* item.get(key, default)
get(value, default) == IF value.kind = "absent" THEN default ELSE value

\* bool(value) of a str or None
Truthy(value) == value.kind = "str" /\ value.str # <<>>

\* bool(number) of an optional number
TruthyNumber(number) == number # <<>> /\ number[1] # 0

\* search["queries"] and search["locations"] of config.yaml
Queries == <<<<"p", "m">>, <<"l", "e", "a", "d">>>>

Locations == <<"Toronto", "Ottawa">>

\* search.get("results_per_query", 10)
ResultsPerQuery == 10

\* range(1, 3): the pages fetch_themuse asks of each location
PagesPerLocation == 2

\* resp.raise_for_status() raises requests.HTTPError
RaisesForStatus(status) == status >= 400 /\ status < 600

\* requests.get raised, or raise_for_status did: the except clause is taken
RequestFailed(resp) == resp.kind = "error" \/ RaisesForStatus(resp.status)

\* what an adapter returns, or that an exception left it
Fetched(jobs, requests) == [jobs |-> jobs, requests |-> requests, raised |-> FALSE]

FetchRaised(requests) == [jobs |-> <<>>, requests |-> requests, raised |-> TRUE]

NormalizedJob(source, title, company, location, description, salary_min, salary_max) ==
    [source |-> source, title |-> title, company |-> company, location |-> location,
     description |-> description, salary_min |-> salary_min, salary_max |-> salary_max]

Item(id, title, company, location, description, salary_min, salary_max) ==
    [id |-> id, title |-> title, company |-> company, location |-> location,
     description |-> description, salary |-> NoKey,
     salary_min |-> salary_min, salary_max |-> salary_max]

\* a posting with every text field, no salary field and a salary in its text
ItemGood ==
    Item(1, PyStr(<<"P", "M">>), PyStr(<<"A", "c", "m", "e">>), PyStr(<<"O", "t", "t", "a", "w", "a">>),
         PyStr(<<"<", "p", ">", "S", "a", "l", "a", "r", "y", ":", " ", "$", "9", "5", ",", "0", "0", "0", "<", "/", "p", ">">>), <<>>, <<>>)

\* a posting whose title, location and description are null
ItemNullTitle ==
    Item(2, PyNone, PyStr(<<"B", "o", "l", "t">>), PyNone, PyNone, <<>>, <<>>)

\* a posting with no key but its id
ItemBare == Item(3, NoKey, NoKey, NoKey, NoKey, <<>>, <<>>)

\* a posting with salary fields, and another salary in its text
ItemPaid ==
    Item(4, PyStr(<<"T", "e", "a", "m", " ", "L", "e", "a", "d">>), PyStr(<<"A", "c", "m", "e">>), PyStr(<<>>),
         PyStr(<<"S", "a", "l", "a", "r", "y", ":", " ", "$", "9", "5", ",", "0", "0", "0">>), <<80000>>, <<90000>>)

\* the postings the sources of the model hold
Items == {ItemGood, ItemNullTitle, ItemBare, ItemPaid}

\* strip_html of every description of these postings; None and an absent
\* key are the empty text, for which strip_html returns ""
Stripped ==
    [html_text \in {item.description.str : item \in Items} |-> strip_html(html_text)]

\* _extract_salary_from_description of every description of these postings,
\* as the source sends it and as strip_html returns it
DescriptionSalary ==
    [text \in UNION {{item.description.str, Stripped[item.description.str]} :
                        item \in Items} |->
        _extract_salary_from_description(text)]

\* the record with salary_min and salary_max set to the salary found, when
\* neither is set and one was found
WithSalary(job, found) ==
    IF /\ ~TruthyNumber(job.salary_min)
       /\ ~TruthyNumber(job.salary_max)
       /\ TruthyNumber(found.salary_min)
    THEN [job EXCEPT !.salary_min = found.salary_min, !.salary_max = found.salary_max]
    ELSE job

\* the backfill of the salary from the description of the job
Backfilled(job) == WithSalary(job, DescriptionSalary[job.description.str])

\* the job fetch_jsearch builds from an item whose job_city is item.location
\* and which has no job_state and no job_country
JsearchJob(item) ==
    Backfilled(
        NormalizedJob("jsearch",
            get(item.title, PyStr(<<"U", "n", "k", "n", "o", "w", "n">>)),
            get(item.company, PyStr(<<"U", "n", "k", "n", "o", "w", "n">>)),
            IF Truthy(get(item.location, PyNone)) THEN item.location ELSE PyStr(<<>>),
            get(item.description, PyStr(<<>>)),
            item.salary_min, item.salary_max))

RECURSIVE fetch_jsearch_from(_, _, _)
\* the loop over queries and locations from the k-th request on
fetch_jsearch_from(script, k, all_jobs) ==
    IF k > Len(Queries) * Len(Locations) THEN Fetched(all_jobs, k - 1)
    ELSE LET resp == script[k]
         IN  IF resp.kind = "response" /\ resp.status \in {403, 429}
             THEN Fetched(all_jobs, k)
             ELSE IF RequestFailed(resp)
             THEN fetch_jsearch_from(script, k + 1, all_jobs)
             ELSE LET data == SubSeq(resp.items, 1, IntMin(Len(resp.items), ResultsPerQuery))
                  IN  fetch_jsearch_from(script, k + 1,
                          all_jobs \o [i \in 1..Len(data) |-> JsearchJob(data[i])])

fetch_jsearch(script) == fetch_jsearch_from(script, 1, <<>>)

RECURSIVE DigitRuns(_)
\* re.findall(r"[\d,]+", s) for a string without commas
DigitRuns(s) ==
    LET start == FirstOf(s, RangeOf(Digits))
        rest == SubSeq(s, start + 1, Len(s))
        n == FirstOf(rest, RangeOf(Alphabet) \ RangeOf(Digits))
    IN  IF rest = <<>> THEN <<>>
        ELSE <<SubSeq(rest, 1, n)>> \o DigitRuns(SubSeq(rest, n + 1, Len(rest)))

\* the job fetch_remotive builds from an item
RemotiveJob(item) ==
    LET salary_str == get(item.salary, PyStr(<<>>))
        nums == DigitRuns(SelectSeq(salary_str.str, LAMBDA c : c # ","))
    IN  NormalizedJob("remotive",
            get(item.title, PyStr(<<"U", "n", "k", "n", "o", "w", "n">>)),
            get(item.company, PyStr(<<"U", "n", "k", "n", "o", "w", "n">>)),
            get(item.location, PyStr(<<"A", "n", "y", "w", "h", "e", "r", "e">>)),
            PyStr(Stripped[get(item.description, PyStr(<<>>)).str]),
            IF Truthy(salary_str) /\ Len(nums) >= 1 THEN <<int(nums[1])>> ELSE <<>>,
            IF Truthy(salary_str) /\ Len(nums) >= 2 THEN <<int(nums[2])>> ELSE <<>>)

RECURSIVE UniqueById(_, _)
\* the items whose id is not in seen_ids and which are the first with their id
UniqueById(items, seen_ids) ==
    IF items = <<>> THEN <<>>
    ELSE IF Head(items).id \in seen_ids THEN UniqueById(Tail(items), seen_ids)
    ELSE <<Head(items)>> \o UniqueById(Tail(items), seen_ids \cup {Head(items).id})

RECURSIVE fetch_remotive_from(_, _, _, _)
\* the loop over queries from the k-th request on
fetch_remotive_from(script, k, all_jobs, seen_ids) ==
    IF k > Len(Queries) THEN Fetched(all_jobs, k - 1)
    ELSE LET resp == script[k]
         IN  IF RequestFailed(resp)
             THEN fetch_remotive_from(script, k + 1, all_jobs, seen_ids)
             ELSE LET data == UniqueById(resp.items, seen_ids)
                  IN  fetch_remotive_from(script, k + 1,
                          all_jobs \o [i \in 1..Len(data) |-> RemotiveJob(data[i])],
                          seen_ids \cup {data[i].id : i \in 1..Len(data)})

fetch_remotive(script) == fetch_remotive_from(script, 1, <<>>, {})

\* the job fetch_adzuna builds from an item whose company and location are
\* objects with the display_name item.company and item.location
AdzunaJob(item) ==
    NormalizedJob("adzuna",
        get(item.title, PyStr(<<"U", "n", "k", "n", "o", "w", "n">>)),
        get(item.company, PyStr(<<"U", "n", "k", "n", "o", "w", "n">>)),
        get(item.location, PyStr(<<>>)),
        PyStr(Stripped[get(item.description, PyStr(<<>>)).str]),
        item.salary_min, item.salary_max)

\* "remote" in item.get("title", "").lower() or "remote" in
\* location_name.lower() raises AttributeError on None
AdzunaRaises(item) ==
    LET title == get(item.title, PyStr(<<>>))
        location_name == get(item.location, PyStr(<<>>))
    IN  \/ title.kind = "None"
        \/ /\ ~Contains(lower(title.str), <<"r", "e", "m", "o", "t", "e">>)
           /\ location_name.kind = "None"

RECURSIVE fetch_adzuna_from(_, _, _)
\* the loop over queries and locations from the k-th request on
fetch_adzuna_from(script, k, all_jobs) ==
    IF k > Len(Queries) * Len(Locations) THEN Fetched(all_jobs, k - 1)
    ELSE LET resp == script[k]
         IN  IF resp.kind = "response" /\ resp.status \in {401, 429}
             THEN Fetched(all_jobs, k)
             ELSE IF RequestFailed(resp)
             THEN fetch_adzuna_from(script, k + 1, all_jobs)
             ELSE IF \E i \in 1..Len(resp.items) : AdzunaRaises(resp.items[i])
             THEN FetchRaised(k)
             ELSE fetch_adzuna_from(script, k + 1,
                      all_jobs \o [i \in 1..Len(resp.items) |-> AdzunaJob(resp.items[i])])

fetch_adzuna(script) == fetch_adzuna_from(script, 1, <<>>)

\* the job fetch_themuse builds from an item whose company is an object with
\* the name item.company and whose locations are one object with the name
\* item.location, or none
ThemuseJob(item) ==
    Backfilled(
        NormalizedJob("themuse",
            get(item.title, PyStr(<<"U", "n", "k", "n", "o", "w", "n">>)),
            get(item.company, PyStr(<<"U", "n", "k", "n", "o", "w", "n">>)),
            IF item.location.kind = "str" THEN item.location ELSE PyStr(<<"N", "/", "A">>),
            PyStr(Stripped[get(item.description, PyStr(<<>>)).str]),
            <<>>, <<>>))

\* any(q in title.lower() for q in queries_lower)
TitleHasQuery(item) ==
    \E q \in 1..Len(Queries) :
        Contains(lower(get(item.title, PyStr(<<"U", "n", "k", "n", "o", "w", "n">>)).str), lower(Queries[q]))

\* the jobs of one page: of the items not seen before, those whose title
\* holds a query
ThemuseJobs(items, seen_ids) ==
    LET kept == SelectSeq(UniqueById(items, seen_ids), TitleHasQuery)
    IN  [i \in 1..Len(kept) |-> ThemuseJob(kept[i])]

\* title.lower() raises AttributeError for an item not seen before
ThemuseRaises(items, seen_ids) ==
    \E i \in 1..Len(items) :
        items[i].id \notin seen_ids /\ items[i].title.kind = "None"

\* a request error or a 429 sets rate_limited, which leaves both loops
ThemuseStops(resp) ==
    (resp.kind = "response" /\ resp.status = 429) \/ RequestFailed(resp)

\* the location and the page of the request after this one: an empty page
\* and the last page end the location
ThemuseNext(resp, location, page) ==
    IF resp.items = <<>> \/ page = PagesPerLocation
    THEN <<location + 1, 1>>
    ELSE <<location, page + 1>>

RECURSIVE fetch_themuse_from(_, _, _, _, _)
\* the loops over locations and pages from the position at = <<location,
\* page>> on, after the given number of requests
fetch_themuse_from(script, at, requests, all_jobs, seen_ids) ==
    IF at[1] > Len(Locations) THEN Fetched(all_jobs, requests)
    ELSE IF ThemuseStops(script[requests + 1])
    THEN Fetched(all_jobs, requests + 1)
    ELSE IF ThemuseRaises(script[requests + 1].items, seen_ids)
    THEN FetchRaised(requests + 1)
    ELSE fetch_themuse_from(script,
             ThemuseNext(script[requests + 1], at[1], at[2]),
             requests + 1,
             all_jobs \o ThemuseJobs(script[requests + 1].items, seen_ids),
             seen_ids \cup {script[requests + 1].items[i].id :
                               i \in 1..Len(script[requests + 1].items)})

fetch_themuse(script) == fetch_themuse_from(script, <<1, 1>>, 0, <<>>, {})

\* the adapters the model covers
Adapters == <<"jsearch", "remotive", "adzuna", "themuse">>

\* fetcher(config) of run() for the source
Fetcher(source, script) ==
    IF source = "jsearch" THEN fetch_jsearch(script)
    ELSE IF source = "remotive" THEN fetch_remotive(script)
    ELSE IF source = "adzuna" THEN fetch_adzuna(script)
    ELSE fetch_themuse(script)

\* the most requests the adapter sends in one run
PlannedRequests(source) ==
    IF source = "remotive" THEN Len(Queries)
    ELSE IF source = "themuse" THEN Len(Locations) * PagesPerLocation
    ELSE Len(Queries) * Len(Locations)

\* title.lower() or company.lower() in job_fingerprint raises AttributeError
FingerprintRaises(job) == job.title.kind # "str" \/ job.company.kind # "str"

\* deduplicate(all_jobs) after the fetch loop returned fetched
Deduplicated(source, fetched, aborted) ==
    [aborted |-> aborted,
     requests |-> fetched.requests,
     all_jobs |-> fetched.jobs,
     unique_jobs |->
         IF aborted THEN <<>>
         ELSE deduplicate([i \in 1..Len(fetched.jobs) |->
                 [title |-> fetched.jobs[i].title.str,
                  company |-> fetched.jobs[i].company.str,
                  source |-> source,
                  fingerprint |-> NoFingerprint]])]

\* an exception leaves the adapter or deduplicate
FetchAborts(fetched) ==
    \/ fetched.raised
    \/ \E i \in 1..Len(fetched.jobs) : FingerprintRaises(fetched.jobs[i])

\* the run after the fetch loop returned fetched
AfterFetch(source, fetched) == Deduplicated(source, fetched, FetchAborts(fetched))

\* run() from the fetch loop to deduplicate, for one source: neither call
\* is inside a try, so an exception of either ends the run
FetchAndDeduplicate(source, script) == AfterFetch(source, Fetcher(source, script))

----------------------------------------------------------------------------
(* Rendered documents *)

\* sanitize_filename keeps this many characters
MaxFilename == 80

FilenameIllegal == {"<", ">", ":", "\"", "/", "\\", "|", "?", "*"}

RECURSIVE CollapseSpaces(_)
\* re.sub(r"\s+", "_", s)
CollapseSpaces(s) ==
    IF s = <<>> THEN <<>>
    ELSE IF Head(s) \in Whitespace
    THEN LET n == FirstOf(s, (RangeOf(Alphabet) \ Whitespace))
         IN  <<"_">> \o CollapseSpaces(SubSeq(s, n + 1, Len(s)))
    ELSE <<Head(s)>> \o CollapseSpaces(Tail(s))

sanitize_filename(name) ==
    LET legal == SelectSeq(name, LAMBDA c : c \notin FilenameIllegal)
        joined == CollapseSpaces(strip(legal))
    IN  SubSeq(joined, 1, IntMin(Len(joined), MaxFilename))

\* the filename save_jd_markdown writes to
JdFilename(job) ==
    sanitize_filename(job.company) \o <<"_">> \o sanitize_filename(job.title) \o <<".", "m", "d">>

----------------------------------------------------------------------------
(* Seen-state ledger and save_jd_markdown *)

\* state["seen_jobs"] is a dict: a sequence of entries with distinct
\* fingerprints, in insertion order (the order json.dump writes them)
LedgerFps(entries) == {entries[i].fp : i \in 1..Len(entries)}

\* seen_jobs[e.fp] = e
DictSet(entries, e) ==
    IF e.fp \in LedgerFps(entries)
    THEN [i \in 1..Len(entries) |-> IF entries[i].fp = e.fp THEN e ELSE entries[i]]
    ELSE Append(entries, e)

\* the three dict literals run() stores; first_seen is the time of the run
DeliveredEntry(job, now) ==
    [fp |-> job.fingerprint, title |-> job.title, company |-> job.company,
     source |-> job.source, first_seen |-> now,
     skipped_expired |-> FALSE, expired_reason |-> <<>>, skipped_relevance |-> FALSE]

ExpiredEntry(job, now, reason) ==
    [fp |-> job.fingerprint, title |-> job.title, company |-> job.company,
     source |-> job.source, first_seen |-> now,
     skipped_expired |-> TRUE, expired_reason |-> reason, skipped_relevance |-> FALSE]

\* variant: the entry of a job skipped for relevance carries no skip flag
RelevanceEntry_unflagged(job, now) ==
    [fp |-> job.fingerprint, title |-> job.title, company |-> job.company,
     source |-> job.source, first_seen |-> now,
     skipped_expired |-> FALSE, expired_reason |-> <<>>, skipped_relevance |-> FALSE]

RelevanceEntry(job, now) ==
    [fp |-> job.fingerprint, title |-> job.title, company |-> job.company,
     source |-> job.source, first_seen |-> now,
     skipped_expired |-> FALSE, expired_reason |-> <<>>, skipped_relevance |-> TRUE]

\* the on-disk state file: absent, a complete JSON document, or the prefix
\* that open(path, "w") and an unfinished json.dump leave behind
AbsentFile == [exists |-> FALSE, complete |-> FALSE, entries |-> <<>>]

CompleteFile(entries) == [exists |-> TRUE, complete |-> TRUE, entries |-> entries]

TornFile(entries) == [exists |-> TRUE, complete |-> FALSE, entries |-> entries]

\* load_state: json.load raises on a file that is not a complete document
LoadFails(file) == file.exists /\ ~file.complete

load_state(file) == IF file.exists THEN file.entries ELSE <<>>

\* filepath.write_text: one file per name, a second write replaces the first
WriteDoc(dir, job) ==
    {d \in dir : d.name # JdFilename(job)}
        \cup {[name |-> JdFilename(job), fp |-> job.fingerprint]}

\* variant: the ledger is not consulted
NewJobs_ignore_ledger(unique, seen, filters, candidate_province) ==
    SelectSeq(unique, LAMBDA job : matches_filters(job, filters, candidate_province))

\* variant: a job the ledger holds as skipped is taken up again
NewJobs_retry_skipped(unique, seen, filters, candidate_province) ==
    SelectSeq(unique, LAMBDA job :
        /\ \A i \in 1..Len(seen) :
              seen[i].fp = job.fingerprint
                  => (seen[i].skipped_expired \/ seen[i].skipped_relevance)
        /\ matches_filters(job, filters, candidate_province))

\* variant: the filters are not applied
NewJobs_unfiltered(unique, seen, filters, candidate_province) ==
    SelectSeq(unique, LAMBDA job : job.fingerprint \notin LedgerFps(seen))

\* the loop that keeps the jobs that are neither in the ledger nor filtered out
NewJobs(unique, seen, filters, candidate_province) ==
    SelectSeq(unique, LAMBDA job :
        /\ job.fingerprint \notin LedgerFps(seen)
        /\ matches_filters(job, filters, candidate_province))

\* variant: the state is saved whatever the mode
SavesState_always(dry) == TRUE

\* if not dry_run: save_state(state, state_path)
SavesState(dry) == ~dry

----------------------------------------------------------------------------
(* Inputs of the pipeline model: jobs the sources can return, the         *)
(* configurations a run can be started with, and what a URL probe can do  *)

\* runs of the fetch stage in one behaviour
MaxRuns == 2

\* jobs one source returns in one run
MaxPerSource == 2

Job(title, company, source, location, is_remote, description, apply_url) ==
    [title |-> title, company |-> company, source |-> source,
     location |-> location, is_remote |-> is_remote, description |-> description,
     apply_url |-> apply_url, salary_min |-> 0, salary_max |-> 0,
     fingerprint |-> NoFingerprint]

JobPM ==
    Job(<<"P", "M">>, <<"A", "c", "m", "e">>, "jsearch", <<"O", "t", "t", "a", "w", "a", ",", " ", "O", "n", "t", "a", "r", "i", "o">>, FALSE,
        <<"r", "i", "s", "k">>, <<"h", "t", "t", "p", ":", "/", "/", "a", ".", "c", "o", "/", "j", "1">>)

\* the same posting from another source: other case and spacing, richer text
JobPM2 ==
    Job(<<" ", "p", "m", " ">>, <<"A", "C", "M", "E">>, "remotive", <<>>, TRUE,
        <<"s", "e", "c", "u", "r", "i", "t", "y", " ", "a", "n", "d", " ", "r", "i", "s", "k">>, <<"h", "t", "t", "p", ":", "/", "/", "b", ".", "c", "o", "/", "x">>)

JobSales ==
    Job(<<"S", "a", "l", "e", "s", " ", "L", "e", "a", "d">>, <<"B", "o", "l", "t">>, "remotive", <<>>, TRUE,
        <<"s", "e", "c", "u", "r", "i", "t", "y", " ", "r", "i", "s", "k">>, <<>>)

\* another posting of the same company: its title differs from JobPM's in a
\* character sanitize_filename drops
JobPSlashM ==
    Job(<<"P", "/", "M">>, <<"A", "c", "m", "e">>, "adzuna", <<"O", "t", "t", "a", "w", "a", ",", " ", "O", "n", "t", "a", "r", "i", "o">>, FALSE,
        <<"s", "e", "c", "u", "r", "i", "t", "y", " ", "r", "i", "s", "k">>, <<>>)

\* sources_to_run, in dict order
Sources == <<"fantastic_jobs", "jsearch", "remotive", "adzuna", "remoteok", "themuse">>

SourceJobs(name) ==
    IF name = "jsearch" THEN {JobPM}
    ELSE IF name = "remotive" THEN {JobPM2, JobSales}
    ELSE {}

SeqsUpTo(S, n) == UNION {[1..k -> S] : k \in 0..n}

\* what fetcher(config) can return for one source
SourceResults(name) == SeqsUpTo(SourceJobs(name), MaxPerSource)

RECURSIVE FetchAll(_, _)
\* the loop over sources_to_run: every list all_jobs can become
FetchAll(names, source_filter) ==
    IF names = <<>> THEN {<<>>}
    ELSE LET here == IF source_filter # "" /\ Head(names) # source_filter
                     THEN {<<>>}
                     ELSE SourceResults(Head(names))
         IN  {a \o b : a \in here, b \in FetchAll(Tail(names), source_filter)}

\* the postings the sources hold on a day when two openings of one company
\* are listed
ClashSourceJobs(name) ==
    IF name = "jsearch" THEN {JobPM}
    ELSE IF name = "adzuna" THEN {JobPSlashM}
    ELSE {}

RECURSIVE FetchAllClash(_, _)
\* the loop over sources_to_run on that day
FetchAllClash(names, source_filter) ==
    IF names = <<>> THEN {<<>>}
    ELSE LET here == IF source_filter # "" /\ Head(names) # source_filter
                     THEN {<<>>}
                     ELSE SeqsUpTo(ClashSourceJobs(Head(names)), MaxPerSource)
         IN  {a \o b : a \in here, b \in FetchAllClash(Tail(names), source_filter)}

NoFilters ==
    [exclude_companies |-> <<>>, must_contain |-> <<>>, exclude_keywords |-> <<>>,
     min_salary |-> 0, include_domains |-> <<>>, exclude_domains |-> <<>>]

NoRelevance ==
    [present |-> FALSE, min_score |-> <<0, 1>>, focus_areas |-> <<>>, anti_signals |-> <<>>]

\* config.yaml as the run reads it
Configs == <<
    [filters |-> [NoFilters EXCEPT !.exclude_domains = <<<<"b", ".", "c", "o">>>>],
     relevance |-> NoRelevance,
     candidate_location |-> <<"T", "o", "r", "o", "n", "t", "o", ",", " ", "O", "n", "t", "a", "r", "i", "o">>],
    [filters |-> NoFilters,
     relevance |-> [present |-> TRUE, min_score |-> <<1, 2>>,
                    focus_areas |-> <<[name |-> "Security", weight |-> <<1, 1>>,
                                       keywords |-> <<<<"s", "e", "c", "u", "r", "i", "t", "y">>, <<"r", "i", "s", "k">>>>]>>,
                    anti_signals |-> <<<<"s", "a", "l", "e", "s">>>>],
     candidate_location |-> <<>>] >>

\* _extract_province(candidate_location) of every configuration
CandidateProvince ==
    [c \in 1..Len(Configs) |-> _extract_province(Configs[c].candidate_location)]

\* compute_relevance_score of every posting the sources return under every
\* configured relevance section, as save_jd_markdown calls it
PostingScores ==
    [relevance_config \in {Configs[c].relevance : c \in 1..Len(Configs)},
     text \in {<<job.title, job.description>> :
                  job \in UNION {SourceJobs(name) \cup ClashSourceJobs(name) :
                                    name \in RangeOf(Sources)}} |->
        compute_relevance_score(text[1] \o <<" ">> \o text[2], text[1], relevance_config)]

\* score < min_score for a configured relevance section
BelowMinScore(job, relevance_config) ==
    FracLess(PostingScores[relevance_config, <<job.title, job.description>>].score,
             relevance_config.min_score)

\* variant: the relevance score is computed first, and a posting below
\* min_score is dropped without a URL check
save_jd_markdown_score_first(job, relevance_config, validate_urls, probe) ==
    LET checked == check_url_alive(job.apply_url, probe)
        requested == validate_urls /\ IssuesRequest(job.apply_url)
    IN  IF relevance_config.present /\ BelowMinScore(job, relevance_config)
        THEN [outcome |-> "irrelevant", reason |-> <<>>, requested |-> FALSE]
        ELSE IF validate_urls /\ checked.raised
        THEN [outcome |-> "raised", reason |-> <<>>, requested |-> requested]
        ELSE IF validate_urls /\ ~checked.alive
        THEN [outcome |-> "expired", reason |-> checked.reason, requested |-> requested]
        ELSE [outcome |-> "saved", reason |-> <<>>, requested |-> requested]

\* save_jd_markdown: outcome "raised" (the URL probe raised), "expired"
\* (returns None with job["_expired_reason"] set), "irrelevant" (returns None)
\* or "saved" (the document was written to JdFilename(job)); requested tells
\* whether check_url_alive sent a request for the apply URL.  The dry-run
\* branch of the save loop makes the same checks in the same order.
save_jd_markdown(job, relevance_config, validate_urls, probe) ==
    LET checked == check_url_alive(job.apply_url, probe)
        requested == validate_urls /\ IssuesRequest(job.apply_url)
    IN  IF validate_urls /\ checked.raised
        THEN [outcome |-> "raised", reason |-> <<>>, requested |-> requested]
        ELSE IF validate_urls /\ ~checked.alive
        THEN [outcome |-> "expired", reason |-> checked.reason, requested |-> requested]
        ELSE IF relevance_config.present /\ BelowMinScore(job, relevance_config)
        THEN [outcome |-> "irrelevant", reason |-> <<>>, requested |-> requested]
        ELSE [outcome |-> "saved", reason |-> <<>>, requested |-> requested]

Response(status, url, body, read_fails) ==
    [kind |-> "response", status |-> status, url |-> url, body |-> body,
     read_fails |-> read_fails]

ProbeTimeout == [kind |-> "timeout", status |-> 0, url |-> <<>>, body |-> <<>>,
                 read_fails |-> FALSE]

ProbeError == [kind |-> "error", status |-> 0, url |-> <<>>, body |-> <<>>,
               read_fails |-> FALSE]

\* what probing a job's apply URL can do during a run
RunProbes(url) ==
    {ProbeTimeout,
     Response(200, url, <<"A", "p", "p", "l", "y", " ", "n", "o", "w">>, FALSE),
     Response(200, url, <<>>, TRUE),
     Response(410, url, <<>>, FALSE)}

----------------------------------------------------------------------------
(* The pipeline: run() of fetcher.py, one process at a time *)

VARIABLES
    ledger_file,    \* the state file on disk
    jd_dir,         \* the documents in the JD directory
    pc,             \* where run() is: "idle" when no run is in progress
    runs,           \* runs started so far; also the clock of first_seen
    dry_run, source_filter, validate_urls,   \* arguments of run()
    config,         \* index in Configs of the configuration load_config read
    state,          \* state["seen_jobs"] in memory
    all_jobs, unique_jobs, new_jobs,
    idx,            \* position of the save loop in new_jobs
    probed,         \* history: fingerprints whose apply URL this run requested
    pre_file,       \* history: the state file when the current run started
    saved_docs,     \* history: <<fingerprint, run>> of every document written
    completed,      \* history: the non-dry runs that ran to their end
    fn, args, result    \* a pure function under test, its inputs and its output

runVars == <<pc, dry_run, source_filter, validate_urls, config, state,
             all_jobs, unique_jobs, new_jobs, idx, probed>>

diskVars == <<ledger_file, jd_dir>>

histVars == <<pre_file, saved_docs, completed>>

fnVars == <<fn, args, result>>

vars == <<ledger_file, jd_dir, pc, runs, dry_run, source_filter, validate_urls,
          config, state, all_jobs, unique_jobs, new_jobs, idx, probed,
          pre_file, saved_docs, completed, fn, args, result>>

\* no run in progress: the locals of run() do not exist
NoRun ==
    /\ pc = "idle"
    /\ dry_run = FALSE
    /\ source_filter = ""
    /\ validate_urls = FALSE
    /\ config = 0
    /\ state = <<>>
    /\ all_jobs = <<>>
    /\ unique_jobs = <<>>
    /\ new_jobs = <<>>
    /\ idx = 0
    /\ probed = {}

NoFn == fn = "none" /\ args = <<>> /\ result = <<>>

\* a fresh installation: no state file, an empty JD directory
FreshDisk ==
    /\ ledger_file = AbsentFile
    /\ jd_dir = {}
    /\ runs = 0
    /\ NoRun
    /\ pre_file = AbsentFile
    /\ saved_docs = {}
    /\ completed = {}

Init == FreshDisk /\ NoFn

\* the process ends: its locals are gone
EndRun ==
    /\ pc' = "idle"
    /\ dry_run' = FALSE
    /\ source_filter' = ""
    /\ validate_urls' = FALSE
    /\ config' = 0
    /\ state' = <<>>
    /\ all_jobs' = <<>>
    /\ unique_jobs' = <<>>
    /\ new_jobs' = <<>>
    /\ idx' = 0
    /\ probed' = {}

\* run() returns normally
ReturnFromRun ==
    /\ EndRun
    /\ completed' = IF dry_run THEN completed ELSE completed \cup {runs}

\* onboarding a customer creates the state file as "{}" when there is none
ImportCustomer ==
    /\ pc = "idle"
    /\ ~ledger_file.exists
    /\ ledger_file' = CompleteFile(<<>>)
    /\ UNCHANGED <<jd_dir, runs, runVars, histVars, fnVars>>

\* run(dry_run, source_filter, validate_urls) up to the fetch loop:
\* load_config, load_state, jd_dir.mkdir
StartRun(dry, src, val, cfg) ==
    /\ pc = "idle"
    /\ runs < MaxRuns
    /\ runs' = runs + 1
    /\ pre_file' = ledger_file
    /\ IF LoadFails(ledger_file)
       THEN UNCHANGED runVars
       ELSE /\ pc' = "fetch"
            /\ dry_run' = dry
            /\ source_filter' = src
            /\ validate_urls' = val
            /\ config' = cfg
            /\ state' = load_state(ledger_file)
            /\ UNCHANGED <<all_jobs, unique_jobs, new_jobs, idx, probed>>
    /\ UNCHANGED <<diskVars, saved_docs, completed, fnVars>>

\* the loop over the sources, which can return any of the batches; an empty
\* batch ends the run
FetchFrom(batches) ==
    /\ pc = "fetch"
    /\ \E jobs \in batches :
          IF jobs = <<>>
          THEN ReturnFromRun
          ELSE /\ pc' = "dedup"
               /\ all_jobs' = jobs
               /\ UNCHANGED <<dry_run, source_filter, validate_urls, config, state,
                              unique_jobs, new_jobs, idx, probed, completed>>
    /\ UNCHANGED <<diskVars, runs, pre_file, saved_docs, fnVars>>

Fetch == FetchFrom(FetchAll(Sources, source_filter))

\* the fetch loop on the day of the two openings
FetchClash == FetchFrom(FetchAllClash(Sources, source_filter))

\* deduplicate, then drop the seen and the filtered; nothing new ends the run.
\* The deduplicate call is the last read of all_jobs, so the list is released here.
DedupAndFilter ==
    /\ pc = "dedup"
    /\ LET unique == deduplicate(all_jobs)
           candidate_province == CandidateProvince[config]
           fresh == NewJobs(unique, state, Configs[config].filters, candidate_province)
       IN  IF fresh = <<>>
           THEN ReturnFromRun
           ELSE /\ pc' = "save"
                /\ unique_jobs' = unique
                /\ new_jobs' = fresh
                /\ idx' = 1
                /\ all_jobs' = <<>>
                /\ UNCHANGED <<dry_run, source_filter, validate_urls, config, state,
                               probed, completed>>
    /\ UNCHANGED <<diskVars, runs, pre_file, saved_docs, fnVars>>

\* the outcome of one iteration of the save loop for the job at idx, given
\* what the probe of its apply URL does
SaveJobWith(probe) ==
    LET job == new_jobs[idx]
        saved == save_jd_markdown(job, Configs[config].relevance, validate_urls, probe)
        outcome == saved.outcome
    IN  IF outcome = "raised"
        THEN \* the exception leaves run(): the process dies with a traceback
             /\ EndRun
             /\ UNCHANGED <<jd_dir, saved_docs>>
        ELSE /\ idx' = idx + 1
             /\ probed' = IF saved.requested
                          THEN probed \cup {job.fingerprint}
                          ELSE probed
             /\ UNCHANGED <<pc, dry_run, source_filter, validate_urls, config,
                            all_jobs, unique_jobs, new_jobs>>
             /\ IF dry_run
                THEN UNCHANGED <<state, jd_dir, saved_docs>>
                ELSE IF outcome = "expired"
                THEN /\ state' = DictSet(state, ExpiredEntry(job, runs, saved.reason))
                     /\ UNCHANGED <<jd_dir, saved_docs>>
                ELSE IF outcome = "irrelevant"
                THEN /\ state' = DictSet(state, RelevanceEntry(job, runs))
                     /\ UNCHANGED <<jd_dir, saved_docs>>
                ELSE /\ jd_dir' = WriteDoc(jd_dir, job)
                     /\ saved_docs' = saved_docs \cup {<<job.fingerprint, runs>>}
                     /\ state' = DictSet(state, DeliveredEntry(job, runs))

\* one iteration of the save loop over new_jobs
SaveJob ==
    /\ pc = "save"
    /\ idx <= Len(new_jobs)
    /\ \E probe \in RunProbes(new_jobs[idx].apply_url) : SaveJobWith(probe)
    /\ UNCHANGED <<ledger_file, runs, pre_file, completed, fnVars>>

\* a dry run ends after the loop without saving
FinishDryRun ==
    /\ pc = "save"
    /\ idx > Len(new_jobs)
    /\ ~SavesState(dry_run)
    /\ ReturnFromRun
    /\ UNCHANGED <<diskVars, runs, pre_file, saved_docs, fnVars>>

\* variant: the state is saved from inside the loop
SaveStateOpen_in_loop ==
    /\ pc = "save"
    /\ SavesState(dry_run)
    /\ pc' = "dump"
    /\ ledger_file' = TornFile(<<>>)
    /\ UNCHANGED <<jd_dir, runs, dry_run, source_filter, validate_urls, config, state,
                   all_jobs, unique_jobs, new_jobs, idx, probed, histVars, fnVars>>

\* save_state: open(path, "w") truncates the file
SaveStateOpen ==
    /\ pc = "save"
    /\ idx > Len(new_jobs)
    /\ SavesState(dry_run)
    /\ pc' = "dump"
    /\ ledger_file' = TornFile(<<>>)
    /\ UNCHANGED <<jd_dir, runs, dry_run, source_filter, validate_urls, config, state,
                   all_jobs, unique_jobs, new_jobs, idx, probed, histVars, fnVars>>

\* save_state: json.dump writes the next entry
SaveStateWrite ==
    /\ pc = "dump"
    /\ Len(ledger_file.entries) < Len(state)
    /\ ledger_file' = TornFile(Append(ledger_file.entries,
                                      state[Len(ledger_file.entries) + 1]))
    /\ UNCHANGED <<jd_dir, runs, runVars, histVars, fnVars>>

\* save_state: the document is closed and the file is complete; run() prints
\* its summary and returns
SaveStateClose ==
    /\ pc = "dump"
    /\ Len(ledger_file.entries) = Len(state)
    /\ ledger_file' = CompleteFile(state)
    /\ ReturnFromRun
    /\ UNCHANGED <<jd_dir, runs, pre_file, saved_docs, fnVars>>

\* the orchestrator kills a fetch step that exceeds its timeout: the
\* process stops wherever it is
Crash ==
    /\ pc # "idle"
    /\ EndRun
    /\ UNCHANGED <<diskVars, runs, histVars, fnVars>>

Next ==
    \/ ImportCustomer
    \/ \E dry \in BOOLEAN, src \in {"", "remotive"}, val \in BOOLEAN,
          cfg \in 1..Len(Configs) : StartRun(dry, src, val, cfg)
    \/ Fetch
    \/ DedupAndFilter
    \/ SaveJob
    \/ FinishDryRun
    \/ SaveStateOpen
    \/ SaveStateWrite
    \/ SaveStateClose
    \/ Crash

Spec == Init /\ [][Next]_vars

\* the same pipeline on the day of the two openings
NextClash ==
    \/ ImportCustomer
    \/ \E dry \in BOOLEAN, src \in {"", "adzuna"}, val \in BOOLEAN,
          cfg \in 1..Len(Configs) : StartRun(dry, src, val, cfg)
    \/ FetchClash
    \/ DedupAndFilter
    \/ SaveJob
    \/ FinishDryRun
    \/ SaveStateOpen
    \/ SaveStateWrite
    \/ SaveStateClose
    \/ Crash

SpecClash == Init /\ [][NextClash]_vars

----------------------------------------------------------------------------
(* The pure functions, each applied to inputs drawn from a bounded set *)

pipelineVars == <<ledger_file, jd_dir, pc, runs, dry_run, source_filter, validate_urls,
                  config, state, all_jobs, unique_jobs, new_jobs, idx, probed,
                  pre_file, saved_docs, completed>>

FpTitles ==
    {<<"S", "e", "n", "i", "o", "r", " ", "P", "M">>, <<" ", "s", "e", "n", "i", "o", "r", " ", "p", "m", " ">>, <<"S", "E", "N", "I", "O", "R", " ", "P", "M", "\t">>, <<"S", "e", "n", "i", "o", "r", " ", " ", "P", "M">>, <<"P", "M">>}

FpCompanies ==
    {<<"A", "c", "m", "e">>, <<"A", "C", "M", "E">>, <<" ", "a", "c", "m", "e", "\n">>, <<"A", "c", "m", "e", " ", "I", "n", "c">>}

InitFingerprint ==
    /\ FreshDisk
    /\ fn = "job_fingerprint"
    /\ args \in FpTitles \X FpCompanies \X FpTitles \X FpCompanies
    /\ result = <<>>

\* job_fingerprint of two (title, company) pairs
ApplyFingerprint ==
    /\ fn = "job_fingerprint"
    /\ result = <<>>
    /\ result' = <<job_fingerprint(args[1], args[2]), job_fingerprint(args[3], args[4])>>
    /\ UNCHANGED <<pipelineVars, fn, args>>

SpecFingerprint == InitFingerprint /\ [][ApplyFingerprint]_vars

\* input lists of deduplicate are at most this long
MaxDedupLen == 3

\* the scenario of the two sources that return the same posting
JobScrum ==
    Job(<<"S", "c", "r", "u", "m", " ", "M", "a", "s", "t", "e", "r">>, <<"A", "c", "m", "e", " ", "C", "o", "r", "p">>, "jsearch", <<>>, FALSE, <<"a", "g", "i", "l", "e">>, <<>>)

JobScrum2 ==
    Job(<<"S", "c", "r", "u", "m", " ", "M", "a", "s", "t", "e", "r">>, <<"A", "c", "m", "e", " ", "C", "o", "r", "p">>, "remotive", <<>>, TRUE,
        <<"a", "g", "i", "l", "e", " ", "c", "o", "a", "c", "h">>, <<>>)

DedupJobs == {JobPM, JobPM2, JobScrum, JobScrum2}

InitDeduplicate ==
    /\ FreshDisk
    /\ fn = "deduplicate"
    /\ args \in SeqsUpTo(DedupJobs, MaxDedupLen)
    /\ result = <<>>

\* deduplicate of the input list, and then of its own output
ApplyDeduplicate ==
    /\ fn = "deduplicate"
    /\ Len(result) < 2
    /\ result' = Append(result, deduplicate(IF result = <<>> THEN args ELSE result[1]))
    /\ UNCHANGED <<pipelineVars, fn, args>>

SpecDeduplicate == InitDeduplicate /\ [][ApplyDeduplicate]_vars

UrlInputs ==
    {<<>>, <<"f", "t", "p", ":", "/", "/", "a", ".", "c", "o", "/", "j", "1">>, <<"h", "t", "t", "p", ":", "/", "/", "a", ".", "c", "o", "/", "j", "1">>, <<"h", "t", "t", "p", "s", ":", "/", "/", "a", ".", "c", "o", "/">>}

FinalUrls ==
    {<<"h", "t", "t", "p", ":", "/", "/", "a", ".", "c", "o", "/", "j", "1">>, <<"h", "t", "t", "p", "s", ":", "/", "/", "a", ".", "c", "o", "/">>, <<"h", "t", "t", "p", ":", "/", "/", "a", ".", "c", "o">>, <<"h", "t", "t", "p", ":", "/", "/", "a", ".", "c", "o", "/", "g", "o", "n", "e", "?", "i", "d", "=", "1">>}

Bodies ==
    {<<>>, <<"A", "p", "p", "l", "y", " ", "n", "o", "w">>, <<"S", "o", "r", "r", "y", ",", " ", "T", "h", "i", "s", " ", "J", "o", "b", " ", "H", "a", "s", " ", "E", "x", "p", "i", "r", "e", "d", ".">>}

Statuses == {200, 204, 301, 302, 404, 410, 500}

\* every outcome of requests.get and of the body read
Probes ==
    {ProbeTimeout, ProbeError}
        \cup {Response(st, u, b, rf) :
                st \in Statuses, u \in FinalUrls, b \in Bodies, rf \in BOOLEAN}

InitCheckUrl ==
    /\ FreshDisk
    /\ fn = "check_url_alive"
    /\ args \in UrlInputs \X Probes
    /\ result = <<>>

ApplyCheckUrl ==
    /\ fn = "check_url_alive"
    /\ result = <<>>
    /\ result' = <<check_url_alive(args[1], args[2])>>
    /\ UNCHANGED <<pipelineVars, fn, args>>

SpecCheckUrl == InitCheckUrl /\ [][ApplyCheckUrl]_vars

\* a relevance section has at most this many focus areas
MaxAreas == 4

\* and at most this many when anti-signals are configured with it
MaxPenalisedAreas == 2

FocusArea(name, weight, keywords) ==
    [name |-> name, weight |-> weight, keywords |-> keywords]

\* focus areas a relevance section is built from: two of one name, one
\* without keywords, one with a weight far below the others
AreaPool ==
    {FocusArea("Core", <<1, 64>>, <<<<"R">>>>),
     FocusArea("Data", <<9, 8>>, <<<<"r">>>>),
     FocusArea("Core", <<9, 8>>, <<<<"r">>>>),
     FocusArea("Cloud", <<1, 1>>, <<<<"r">>, <<"a", "u", "d", "i", "t">>>>),
     FocusArea("Misc", <<2, 1>>, <<>>)}

\* a text that holds the keyword "r" more often than the density cap
ManyR == <<"R", "R", "R", "R", "R", "R", "R", "R", "R", "R", "r", "r", "r", "r", "r", "r", "r", "r", "r", "r", "r", " ", "a", "u", "d", "i", "t">>

\* <<jd_text, title, anti_signals>>
ScoringCases ==
    {<<ManyR, <<"R", " ", "L", "e", "a", "d">>, <<>>>>,
     <<<<"S", "a", "l", "e", "s", " ", "L", "e", "a", "d", " ", "r">>, <<"S", "a", "l", "e", "s", " ", "L", "e", "a", "d">>, <<<<"s", "a", "l", "e", "s">>>>>>,
     <<<<"P", "r", "e", "s", "a", "l", "e", "s", "\n", "r", ",", " ", "n", "o", " ", "S", "a", "l", "e", "s">>, <<"P", "r", "e", "s", "a", "l", "e", "s">>, <<<<"S", "a", "l", "e", "s">>>>>>,
     <<<<"R", " ", "L", "e", "a", "d", "\n", "2", "\n", "3", "\n", "4", "\n", "5", "\n", "s", "a", "l", "e", "s">>, <<"R", " ", "L", "e", "a", "d">>, <<<<"h", "r">>, <<"s", "a", "l", "e", "s">>>>>>,
     <<<<"R", "e", "s", "a", "l", "e", "s", " ", "r">>, <<"R", "e", "s", "a", "l", "e", "s">>, <<<<"s", "a", "l", "e", "s">>>>>>}

InitRelevance ==
    /\ FreshDisk
    /\ fn = "compute_relevance_score"
    /\ \E case \in ScoringCases, focus_areas \in SeqsUpTo(AreaPool, MaxAreas) :
          /\ case[3] # <<>> => Len(focus_areas) <= MaxPenalisedAreas
          /\ args = <<case[1], case[2],
                      [present |-> TRUE, min_score |-> <<1, 2>>,
                       focus_areas |-> focus_areas, anti_signals |-> case[3]]>>
    /\ result = <<>>

ApplyRelevance ==
    /\ fn = "compute_relevance_score"
    /\ result = <<>>
    /\ result' = <<compute_relevance_score(args[1], args[2], args[3])>>
    /\ UNCHANGED <<pipelineVars, fn, args>>

SpecRelevance == InitRelevance /\ [][ApplyRelevance]_vars

FilterTitles == {<<"A", "n", "a", "l", "y", "s", "t">>, <<"R", "e", "m", "o", "t", "e", " ", "A", "n", "a", "l", "y", "s", "t">>}

FilterCompanies == {<<"A", "c", "m", "e">>, <<"E", "v", "i", "l", " ", "C", "o", "r", "p">>}

\* free-text locations: none, a city of the alias table, a province by name,
\* a place outside the country
FilterLocations ==
    {<<>>, <<"T", "o", "r", "o", "n", "t", "o">>, <<"O", "t", "t", "a", "w", "a", ",", " ", "O", "N", "T", "A", "R", "I", "O">>, <<"P", "a", "r", "i", "s", ",", " ", "F", "r", "a", "n", "c", "e">>}

FilterDescriptions == {<<"r", "i", "s", "k">>, <<"r", "e", "m", "o", "t", "e", " ", "o", "k">>}

FilterUrls == {<<"h", "t", "t", "p", ":", "/", "/", "a", ".", "c", "o", "/", "j">>, <<"h", "t", "t", "p", ":", "/", "/", "B", ".", "c", "o", "/", "j">>}

\* salary_max of a posting; 0 stands for None
FilterSalaries == {0, 50000}

FilterJobs ==
    {[Job(title, company, "jsearch", location, is_remote, description, apply_url)
        EXCEPT !.salary_max = salary] :
        title \in FilterTitles, company \in FilterCompanies,
        location \in FilterLocations, is_remote \in BOOLEAN,
        description \in FilterDescriptions, apply_url \in FilterUrls,
        salary \in FilterSalaries}

\* the filters section of config.yaml
FilterConfigs ==
    {[exclude_companies |-> exc, must_contain |-> must, exclude_keywords |-> kws,
      min_salary |-> min_sal, include_domains |-> inc, exclude_domains |-> dom] :
        exc \in {<<>>, <<<<"E", "V", "I", "L">>>>, <<<<"z", "e", "d">>, <<"c", "o", "r", "p">>>>},
        must \in {<<>>, <<<<"c", "h", "e", "f">>, <<"R", "i", "s", "k">>>>},
        kws \in {<<>>, <<<<"a", "n", "a", "l", "y", "s", "t">>>>},
        min_sal \in {0, 60000},
        inc \in {<<>>, <<<<"a", ".", "c", "o">>>>},
        dom \in {<<>>, <<<<"b", ".", "c", "o">>>>}}

\* _extract_province(candidate_location): "" or a name of PROVINCES
FilterProvinces == {<<>>, PROVINCES[9]}

InitFilters ==
    /\ FreshDisk
    /\ fn = "matches_filters"
    /\ args \in FilterJobs \X FilterConfigs \X FilterProvinces
    /\ result = <<>>

ApplyFilters ==
    /\ fn = "matches_filters"
    /\ result = <<>>
    /\ result' = <<matches_filters(args[1], args[2], args[3])>>
    /\ UNCHANGED <<pipelineVars, fn, args>>

SpecFilters == InitFilters /\ [][ApplyFilters]_vars

\* a description has at most this many lines
MaxLines == 2

SalaryLines ==
    {<<"$", "1", "2", "0", ",", "0", "0", "0", " ", "-", " ", "$", "1", "6", "5", ",", "0", "0", "0">>,
     <<"C", "A", "D", "$", "8", "0", "K", "-", "$", "9", "5", "k">>,
     <<"S", "a", "l", "a", "r", "y", ":", " ", "$", "9", "5", ",", "0", "0", "0">>,
     <<"P", "a", "y", ":", " ", "$", "4", "5", "/", "h", "o", "u", "r", ",", " ", "p", "l", "u", "s", " ", "b", "e", "n", "e", "f", "i", "t", "s">>,
     <<"$", "5", "0", "0", " ", "b", "o", "n", "u", "s", ",", " ", "s", "a", "l", "a", "r", "y", " ", "$", "3", "0", ",", "0", "0", "0", " ", "t", "o", " ", "$", "5">>,
     <<"$", "1", "5", "K", " ", "-", " ", "$", "9", "0", "K">>,
     <<"p", "e", "r", " ", "h", "o", "u", "r", " ", "$", "9", "0", ",", "0", "0", "0">>,
     <<"u", "p", " ", "t", "o", " ", "C", "A", "$", " ", "1", "9", ",", "9", "9", "9">>,
     <<"$", "2", "0", ",", "0", "0", "0">>,
     <<"$", "9", "0", "K", " ", "t", "o", " ", "$", "1", "5", "0", ",", "0", "0", "0">>,
     <<"5", "+", " ", "y", "e", "a", "r", "s">>}

RECURSIVE JoinLines(_)
\* "\n".join(lines)
JoinLines(lines) ==
    IF lines = <<>> THEN <<>>
    ELSE IF Len(lines) = 1 THEN Head(lines)
    ELSE Head(lines) \o <<"\n">> \o JoinLines(Tail(lines))

SalaryDescriptions == {JoinLines(lines) : lines \in SeqsUpTo(SalaryLines, MaxLines)}

InitSalary ==
    /\ FreshDisk
    /\ fn = "_extract_salary_from_description"
    /\ args \in {<<description>> : description \in SalaryDescriptions}
    /\ result = <<>>

ApplySalary ==
    /\ fn = "_extract_salary_from_description"
    /\ result = <<>>
    /\ result' = <<_extract_salary_from_description(args[1])>>
    /\ UNCHANGED <<pipelineVars, fn, args>>

SpecSalary == InitSalary /\ [][ApplySalary]_vars

Ok(items) == [kind |-> "response", status |-> 200, items |-> items]

Status(status) == [kind |-> "response", status |-> status, items |-> <<>>]

NetworkError == [kind |-> "error", status |-> 0, items |-> <<>>]

\* what one request of an adapter can be answered with
Answers ==
    {Ok(<<ItemGood>>), Ok(<<ItemNullTitle, ItemPaid>>), Ok(<<ItemBare, ItemPaid>>),
     Ok(<<>>), Status(401), Status(403), Status(429), Status(500), NetworkError}

InitFetch ==
    /\ FreshDisk
    /\ fn = "fetch"
    /\ args \in UNION {{<<source, script>> :
                            script \in [1..PlannedRequests(source) -> Answers]} :
                        source \in RangeOf(Adapters)}
    /\ result = <<>>

ApplyFetch ==
    /\ fn = "fetch"
    /\ result = <<>>
    /\ result' = <<FetchAndDeduplicate(args[1], args[2])>>
    /\ UNCHANGED <<pipelineVars, fn, args>>

SpecFetch == InitFetch /\ [][ApplyFetch]_vars

----------------------------------------------------------------------------
(* Properties of the pure functions *)

\* the normalisation the fingerprint is specified by: trim, then lowercase
TrimThenLower(s) == lower(strip(s))

\* C7: job_fingerprint gives the same result for two (title, company) pairs
\* whose titles are equal after trimming and lowercasing and whose companies
\* are equal after the same normalisation
C7_FingerprintNormalised ==
    (/\ fn = "job_fingerprint"
     /\ result # <<>>
     /\ TrimThenLower(args[1]) = TrimThenLower(args[3])
     /\ TrimThenLower(args[2]) = TrimThenLower(args[4]))
        => result[1] = result[2]

\* the pairs ("Senior PM", "Acme") and (" senior pm ", "ACME") were fingerprinted
C7_Witness ==
    /\ fn = "job_fingerprint"
    /\ result # <<>>
    /\ args = <<<<"S", "e", "n", "i", "o", "r", " ", "P", "M">>, <<"A", "c", "m", "e">>, <<" ", "s", "e", "n", "i", "o", "r", " ", "p", "m", " ">>, <<"A", "C", "M", "E">>>>
    /\ result[1] = result[2]

FpOf(job) == job_fingerprint(job.title, job.company)

\* the positions of jobs that hold the first occurrence of a fingerprint
FirstOccurrences(jobs) ==
    {i \in 1..Len(jobs) : \A j \in 1..(i - 1) : FpOf(jobs[j]) # FpOf(jobs[i])}

\* the k-th smallest element of a set of numbers
Nth(S, k) == CHOOSE i \in S : Cardinality({j \in S : j < i}) = k - 1

\* C8: deduplicate returns, in input order, exactly the first occurrence of
\* each fingerprint of the input: the record at each first position, stamped
\* with its fingerprint, and nothing else
C8_FirstOccurrencesInOrder ==
    (fn = "deduplicate" /\ result # <<>>) =>
        LET out == result[1]
            first == FirstOccurrences(args)
        IN  /\ Len(out) = Cardinality(first)
            /\ \A k \in 1..Len(out) :
                  out[k] = [args[Nth(first, k)] EXCEPT !.fingerprint = FpOf(args[Nth(first, k)])]
            /\ \A i \in 1..Len(args) :
                  Cardinality({k \in 1..Len(out) : out[k].fingerprint = FpOf(args[i])}) = 1

\* the same posting came from two sources, the later one with a richer
\* description, with another posting in between
C8_Witness ==
    /\ fn = "deduplicate"
    /\ args = <<JobScrum, JobPM, JobScrum2>>
    /\ result # <<>>
    /\ result[1] = <<[JobScrum EXCEPT !.fingerprint = FpOf(JobScrum)],
                     [JobPM EXCEPT !.fingerprint = FpOf(JobPM)]>>

\* C9: deduplicate applied to its own output returns that output unchanged
C9_DedupIdempotent ==
    (fn = "deduplicate" /\ Len(result) = 2) => result[2] = result[1]

\* a list with three postings of one fingerprint was deduplicated twice
C9_Witness ==
    /\ fn = "deduplicate"
    /\ Len(result) = 2
    /\ Len(args) = 3
    /\ Cardinality({FpOf(args[i]) : i \in 1..Len(args)}) = 1
    /\ Len(result[2]) = 1

\* C10: a final response status of 404 or 410 makes check_url_alive return
\* alive = false with reason "http_404" or "http_410", whatever the final URL
\* and the body are
C10_GoneIsDead ==
    (/\ fn = "check_url_alive"
     /\ result # <<>>
     /\ startswith(args[1], <<"h", "t", "t", "p">>)
     /\ args[2].kind = "response"
     /\ args[2].status \in {404, 410})
        => /\ ~result[1].raised
           /\ ~result[1].alive
           /\ result[1].reason = IF args[2].status = 404 THEN <<"h", "t", "t", "p", "_", "4", "0", "4">> ELSE <<"h", "t", "t", "p", "_", "4", "1", "0">>

\* a 410 answered after a redirect to the homepage, with an expired-phrase body
C10_Witness ==
    /\ fn = "check_url_alive"
    /\ result # <<>>
    /\ args[1] = <<"h", "t", "t", "p", ":", "/", "/", "a", ".", "c", "o", "/", "j", "1">>
    /\ args[2] = Response(410, <<"h", "t", "t", "p", "s", ":", "/", "/", "a", ".", "c", "o", "/">>, <<"S", "o", "r", "r", "y", ",", " ", "T", "h", "i", "s", " ", "J", "o", "b", " ", "H", "a", "s", " ", "E", "x", "p", "i", "r", "e", "d", ".">>, TRUE)
    /\ result[1] = UrlResult(FALSE, <<"h", "t", "t", "p", "_", "4", "1", "0">>)

----------------------------------------------------------------------------
(* Properties of the pipeline *)

\* the runs that ran to their end without --dry-run and wrote a document for fp
DeliveringRuns(fp) == {r \in completed : <<fp, r>> \in saved_docs}

\* C1: across the completed non-dry runs that share the ledger file, a
\* fingerprint has a document saved in at most one run
C1_DeliveredAtMostOnce ==
    \A d \in saved_docs : Cardinality(DeliveringRuns(d[1])) <= 1

\* a later non-dry run has fetched a job an earlier completed run delivered,
\* and has written its whole ledger
C1_Witness ==
    /\ pc = "dump"
    /\ ~dry_run
    /\ Len(ledger_file.entries) = Len(state)
    /\ \E d \in saved_docs :
          /\ d[2] \in completed
          /\ d[2] < runs
          /\ \E i \in 1..Len(unique_jobs) : unique_jobs[i].fingerprint = d[1]

\* the fingerprints the ledger held when the current (or last) run started
SeenAtStart == LedgerFps(load_state(pre_file))

\* C2: a fingerprint that is in the ledger when a run starts is never among
\* the new jobs of that run and gets no document from that run
C2_SeenNeverNew ==
    \A fp \in SeenAtStart :
        /\ <<fp, runs>> \notin saved_docs
        /\ \A i \in 1..Len(new_jobs) : new_jobs[i].fingerprint # fp

\* a run without a relevance section is saving new jobs after it fetched a
\* job the ledger holds as skipped for relevance
C2_Witness ==
    /\ pc = "save"
    /\ idx > Len(new_jobs)
    /\ ~Configs[config].relevance.present
    /\ \E k \in 1..Len(pre_file.entries), i \in 1..Len(unique_jobs) :
          /\ pre_file.entries[k].skipped_relevance
          /\ unique_jobs[i].fingerprint = pre_file.entries[k].fp

\* C3: after every invocation the fingerprints of the ledger file are a
\* superset of those before it
C3_LedgerNeverShrinks ==
    pc = "idle" => SeenAtStart \subseteq LedgerFps(ledger_file.entries)

\* the entry a ledger holds for a fingerprint
EntryOf(entries, fp) == entries[CHOOSE i \in 1..Len(entries) : entries[i].fp = fp]

\* C4: in a non-dry run every new job the loop has passed has exactly one
\* ledger entry, with exactly one of the outcomes delivered (no skip flag,
\* document written), skipped_expired or skipped_relevance; and an entry the
\* ledger held when the run started is the same in memory and on disk
C4_OneWayStatus ==
    /\ (pc \in {"save", "dump"} /\ ~dry_run) =>
          \A k \in 1..(idx - 1) :
              LET fp == new_jobs[k].fingerprint
                  e == EntryOf(state, fp)
              IN  /\ Cardinality({i \in 1..Len(state) : state[i].fp = fp}) = 1
                  /\ e.first_seen = runs
                  /\ ~(e.skipped_expired /\ e.skipped_relevance)
                  /\ (~e.skipped_expired /\ ~e.skipped_relevance)
                        <=> (<<fp, runs>> \in saved_docs)
    /\ pc # "idle" =>
          \A k \in 1..Len(pre_file.entries) :
              k <= Len(state) /\ state[k] = pre_file.entries[k]
    /\ \A i \in 1..Len(ledger_file.entries), k \in 1..Len(pre_file.entries) :
          ledger_file.entries[i].fp = pre_file.entries[k].fp
              => ledger_file.entries[i] = pre_file.entries[k]

\* a non-dry run that started with an entry in the ledger fetched that job
\* again, recorded a new job, and has written its whole ledger
C4_Witness ==
    /\ pc = "dump"
    /\ Len(ledger_file.entries) = Len(state)
    /\ \E k \in 1..Len(pre_file.entries), i \in 1..Len(unique_jobs) :
          unique_jobs[i].fingerprint = pre_file.entries[k].fp
    /\ \E i \in 1..Len(state) : state[i].first_seen = runs

\* C5: the state file is never empty or partly written, and during a non-dry
\* run it holds either the content the run started with or the content the
\* run saves
C5_LedgerWriteAtomic ==
    /\ ledger_file.exists => ledger_file.complete
    /\ (pc # "idle" /\ ~dry_run) =>
          (ledger_file = pre_file \/ ledger_file = CompleteFile(state))

\* C6: no step of a dry run changes the state file or writes a document
C6_DryRunSavesNothing ==
    [][(pc # "idle" /\ dry_run) =>
          /\ ledger_file' = ledger_file
          /\ jd_dir' = jd_dir
          /\ saved_docs' = saved_docs]_vars

\* a dry run with URL checks and relevance scoring has gone through two new jobs
C6_Witness ==
    /\ pc = "save"
    /\ dry_run
    /\ validate_urls
    /\ Configs[config].relevance.present
    /\ Len(new_jobs) = 2
    /\ idx > Len(new_jobs)

\* C25: within a run the state file changes only after the save loop has
\* passed every new job, only when the run is not dry, and in one pass: it
\* is truncated, receives the entries of the in-memory ledger in order, and
\* the run is over when the file is complete again; until the loop ends the
\* file holds what it held when the run started
C25_LedgerWrittenOnceAfterLoop ==
    [][/\ pc' \in {"fetch", "dedup", "save"} => ledger_file' = pre_file'
       /\ (pc # "idle" /\ ledger_file' # ledger_file) =>
             /\ ~dry_run
             /\ idx > Len(new_jobs)
             /\ pc = "save" => (pc' = "dump" /\ ledger_file'.entries = <<>>)
             /\ pc = "dump" =>
                   /\ ledger_file.entries
                         = SubSeq(state, 1, Len(ledger_file.entries))
                   /\ \/ pc' = "dump" /\ ~ledger_file'.complete
                      \/ pc' = "idle" /\ ledger_file' = CompleteFile(state)]_vars

\* a non-dry run has evaluated two new jobs and has written the first of
\* their two entries to the file
C25_Witness ==
    /\ pc = "dump"
    /\ ~dry_run
    /\ Len(new_jobs) = 2
    /\ Len(state) = 2
    /\ Len(ledger_file.entries) = 1

\* the job passes the filters of the configuration the current run loaded
PassesRunFilters(job) ==
    matches_filters(job, Configs[config].filters,
                    _extract_province(Configs[config].candidate_location))

ScoresBelowMin(job) ==
    /\ Configs[config].relevance.present
    /\ BelowMinScore(job, Configs[config].relevance)

\* C26 as stated: a job whose apply URL the run requested was not in the
\* ledger at the start, passes the filters and scores at least min_score
C26_ProbeOnlyAfterScoring ==
    pc \in {"save", "dump"} =>
        \A k \in 1..Len(new_jobs) :
            new_jobs[k].fingerprint \in probed =>
                /\ new_jobs[k].fingerprint \notin SeenAtStart
                /\ PassesRunFilters(new_jobs[k])
                /\ ~ScoresBelowMin(new_jobs[k])

\* C26, amended: the URL check precedes relevance scoring.  A requested URL
\* belongs to a new job the save loop has passed, which was not in the ledger
\* at the start and passes the filters; and with URL validation on, every new
\* job the loop has passed that carries an http URL was requested, whatever
\* its relevance score
C26_ProbeBeforeScoring ==
    /\ pc \notin {"save", "dump"} => probed = {}
    /\ pc \in {"save", "dump"} =>
          /\ \A fp \in probed :
                \E k \in 1..(idx - 1) :
                    /\ new_jobs[k].fingerprint = fp
                    /\ fp \notin SeenAtStart
                    /\ PassesRunFilters(new_jobs[k])
                    /\ validate_urls
                    /\ IssuesRequest(new_jobs[k].apply_url)
          /\ \A k \in 1..(idx - 1) :
                (validate_urls /\ IssuesRequest(new_jobs[k].apply_url))
                    => new_jobs[k].fingerprint \in probed

\* the URL of a new job that scores below min_score has been requested
C26_Witness ==
    /\ pc = "save"
    /\ \E k \in 1..(idx - 1) :
          /\ ScoresBelowMin(new_jobs[k])
          /\ new_jobs[k].fingerprint \in probed

\* the entry records a delivered job
Delivered(entry) == ~entry.skipped_expired /\ ~entry.skipped_relevance

\* C24: every job the ledger in memory or on disk records as delivered has
\* its own document in the JD directory, so there are as many documents as
\* delivered jobs
C24_OneDocumentPerDeliveredJob ==
    \A entries \in {state, ledger_file.entries} :
        \A i \in 1..Len(entries) :
            Delivered(entries[i]) => \E d \in jd_dir : d.fp = entries[i].fp

----------------------------------------------------------------------------
(* Properties of the URL liveness checker *)

\* the final URL of a response is another URL than the one asked for and has
\* no path beyond slashes
LandedOnHomepage(url, probe) ==
    /\ probe.url # <<>>
    /\ url # probe.url
    /\ \A i \in 1..Len(UrlPath(probe.url)) : UrlPath(probe.url)[i] = "/"

\* check_url_alive was applied to an http URL that was answered
Answered ==
    /\ fn = "check_url_alive"
    /\ result # <<>>
    /\ startswith(args[1], <<"h", "t", "t", "p">>)
    /\ args[2].kind = "response"

\* C11 as stated: for every response status other than 404 and 410, a final
\* URL with an empty path that differs from the input URL makes
\* check_url_alive return alive = false with reason "redirect_to_homepage"
C11_HomepageRedirectAnyStatus ==
    (/\ Answered
     /\ args[2].status \notin {404, 410}
     /\ LandedOnHomepage(args[1], args[2]))
        => result[1] = UrlResult(FALSE, <<"r", "e", "d", "i", "r", "e", "c", "t", "_", "t", "o", "_", "h", "o", "m", "e", "p", "a", "g", "e">>)

\* C11 amended: for a response status of 200, 301 or 302, a final URL with an
\* empty path that differs from the input URL makes check_url_alive return
\* alive = false with reason "redirect_to_homepage", before the body is read;
\* for every other status except 404 and 410 the final URL is not looked at
\* and the result is alive = true with reason "http_<status>"
C11_HomepageRedirect ==
    (Answered /\ LandedOnHomepage(args[1], args[2])) =>
        /\ args[2].status \in {200, 301, 302}
              => result[1] = UrlResult(FALSE, <<"r", "e", "d", "i", "r", "e", "c", "t", "_", "t", "o", "_", "h", "o", "m", "e", "p", "a", "g", "e">>)
        /\ args[2].status \notin {200, 301, 302, 404, 410}
              => result[1] = UrlResult(TRUE, <<"h", "t", "t", "p", "_">> \o IntToStr(args[2].status))

\* a 200 answered from the site root after a redirect, with a body that
\* cannot be read
C11_Witness ==
    /\ Answered
    /\ args[1] = <<"h", "t", "t", "p", ":", "/", "/", "a", ".", "c", "o", "/", "j", "1">>
    /\ args[2] = Response(200, <<"h", "t", "t", "p", "s", ":", "/", "/", "a", ".", "c", "o", "/">>, <<"A", "p", "p", "l", "y", " ", "n", "o", "w">>, TRUE)
    /\ result[1] = UrlResult(FALSE, <<"r", "e", "d", "i", "r", "e", "c", "t", "_", "t", "o", "_", "h", "o", "m", "e", "p", "a", "g", "e">>)

\* C12: check_url_alive never raises, and a connection error or a timeout
\* gives alive = true
C12_ProbeFailureIsAlive ==
    (fn = "check_url_alive" /\ result # <<>>) =>
        /\ ~result[1].raised
        /\ args[2].kind \in {"timeout", "error"} => result[1].alive

----------------------------------------------------------------------------
(* Properties of the relevance scorer *)

\* compute_relevance_score was applied to a section with focus areas
Scored ==
    /\ fn = "compute_relevance_score"
    /\ result # <<>>
    /\ args[3].focus_areas # <<>>

\* C13: for every relevance section with positive area weights and every
\* text and title, the score lies between 0.0 and 1.0
C13_ScoreInUnitInterval ==
    (fn = "compute_relevance_score" /\ result # <<>>) =>
        /\ ~FracLess(result[1].score, <<0, 1>>)
        /\ ~FracLess(<<1, 1>>, result[1].score)

\* C14: without focus areas the score is exactly 1.0 and the breakdown is
\* empty, whatever the text, the title and the anti-signals are
C14_NoFocusAreasScoresOne ==
    (/\ fn = "compute_relevance_score"
     /\ result # <<>>
     /\ args[3].focus_areas = <<>>)
        => result[1] = [score |-> <<1, 1>>, breakdown |-> <<>>]

\* a posting titled "Sales Lead" was scored against a section with the
\* anti-signal "sales" and no focus areas
C14_Witness ==
    /\ fn = "compute_relevance_score"
    /\ result # <<>>
    /\ args[3].focus_areas = <<>>
    /\ args[2] = <<"S", "a", "l", "e", "s", " ", "L", "e", "a", "d">>
    /\ args[3].anti_signals = <<<<"s", "a", "l", "e", "s">>>>
    /\ result[1].score = <<1, 1>>

\* (0.7 * breadth + 0.3 * density_norm) * weight of one area, with breadth the
\* fraction of its keywords found in the text and density_norm =
\* min(occurrences, 20) / 20; an area without keywords contributes nothing
WeightedAreaScore(area, text_lower) ==
    LET found == {k \in 1..Len(area.keywords) : Contains(text_lower, lower(area.keywords[k]))}
        occurrences == IntSum([k \in 1..Len(area.keywords) |->
                                  count(text_lower, lower(area.keywords[k]))])
        breadth == Fl(Frac(Cardinality(found), Len(area.keywords)))
        density_norm == Fl(Frac(IntMin(occurrences, DensityCap), DensityCap))
    IN  IF area.keywords = <<>> THEN <<0, 1>>
        ELSE FlMul(FlAdd(FlMul(Float07, breadth), FlMul(Float03, density_norm)), area.weight)

RECURSIVE WeightedAreaScores(_, _)
WeightedAreaScores(focus_areas, text_lower) ==
    IF focus_areas = <<>> THEN <<>>
    ELSE <<WeightedAreaScore(Head(focus_areas), text_lower)>>
             \o WeightedAreaScores(Tail(focus_areas), text_lower)

\* the weighted average over all configured focus areas
WeightedAverage(focus_areas, text_lower) ==
    FlDiv(FlSum(WeightedAreaScores(focus_areas, text_lower)), FlSum(Weights(focus_areas)))

\* C15: with no anti-signal configured, the score is the sum over every focus
\* area of (0.7 * breadth + 0.3 * density_norm) * weight divided by the sum of
\* all area weights, and it does not exceed 1.0
C15_WeightedAverageOfAllAreas ==
    (Scored /\ args[3].anti_signals = <<>>) =>
        /\ result[1].score = WeightedAverage(args[3].focus_areas, lower(args[1]))
        /\ ~FracLess(<<1, 1>>, WeightedAverage(args[3].focus_areas, lower(args[1])))

\* some anti-signal matches s on word boundaries, case-insensitively
AntiSignalIn(s, anti_signals) ==
    \E i \in 1..Len(anti_signals) : SearchWord(lower(s), lower(anti_signals[i]))

\* 0.5 for a match in the title, otherwise 0.1 for a match in the first five
\* lines of the text, otherwise 0
TieredPenalty(jd_text, title, anti_signals) ==
    IF AntiSignalIn(title, anti_signals) THEN <<1, 2>>
    ELSE IF AntiSignalIn(FirstLines(jd_text, 5), anti_signals) THEN Float01
    ELSE <<0, 1>>

----------------------------------------------------------------------------
(* Properties of the filter engine *)

Filtered == fn = "matches_filters" /\ result # <<>>

\* some exclude_companies entry occurs in the company, whatever the case
CompanyExcluded(job, filters) ==
    \E i \in 1..Len(filters.exclude_companies) :
        Contains(lower(job.company), lower(filters.exclude_companies[i]))

\* C17: a job whose company contains an exclude_companies entry, compared
\* without regard to case, is rejected whatever the other filters, the remote
\* flag and the province are
C17_ExcludedCompanyRejected ==
    (Filtered /\ CompanyExcluded(args[1], args[2])) => result[1] = FALSE

\* a blocklisted company whose job passes every other filter and the province
C17_Witness ==
    /\ Filtered
    /\ args[1].company = <<"E", "v", "i", "l", " ", "C", "o", "r", "p">>
    /\ args[2].exclude_companies = <<<<"E", "V", "I", "L">>>>
    /\ matches_filters(args[1], [args[2] EXCEPT !.exclude_companies = <<>>], args[3])
    /\ result[1] = FALSE

\* the remote flag is set or the title says "remote"
RemoteByFlagOrTitle(job) ==
    job.is_remote \/ Contains(lower(job.title), <<"r", "e", "m", "o", "t", "e">>)

LocationNamesProvince(job, candidate_province) ==
    Contains(lower(job.location), lower(candidate_province))

\* what the six filters before the province policy decide
OtherFilters(job, filters) == matches_filters(job, filters, <<>>)

NamesProvince(location) ==
    \/ \E i \in 1..Len(PROVINCES) : Contains(lower(location), ProvincesLower[i])
    \/ \E i \in 1..Len(PROVINCE_ABBREVIATIONS) :
          SearchWord(location, PROVINCE_ABBREVIATIONS[i][1])

\* C19: a job that is not remote and whose location names no province (no
\* province can be determined from it, or only a city or region of the alias
\* table) passes the province filter: the other filters alone decide
C19_UnresolvedLocationPasses ==
    (/\ Filtered
     /\ args[3] # <<>>
     /\ ~RemoteByFlagOrTitle(args[1])
     /\ ~NamesProvince(args[1].location)) =>
        result[1] = OtherFilters(args[1], args[2])

----------------------------------------------------------------------------
(* Properties of the salary extraction *)

Extracted == fn = "_extract_salary_from_description" /\ result # <<>>

\* C20: every salary_min and salary_max that the extraction returns, other
\* than None, is at least 20000
C20_NoSalaryBelowFloor ==
    Extracted =>
        /\ result[1].salary_min # <<>> => result[1].salary_min[1] >= 20000
        /\ result[1].salary_max # <<>> => result[1].salary_max[1] >= 20000

\* a line holding a range whose upper end is under the floor: the range is
\* passed over and the labelled amount of the same line is returned
C20_Witness ==
    /\ Extracted
    /\ args[1] = <<"$", "5", "0", "0", " ", "b", "o", "n", "u", "s", ",", " ", "s", "a", "l", "a", "r", "y", " ", "$", "3", "0", ",", "0", "0", "0", " ", "t", "o", " ", "$", "5">>
    /\ result[1].salary_min = <<30000>>
    /\ result[1].salary_max = <<>>


\* the line holds one of the four hourly-rate markers, in any case
HasHourlyMarker(line) ==
    \E marker \in {<<"/", "h", "o", "u", "r">>, <<"p", "e", "r", " ", "h", "o", "u", "r">>, <<"h", "o", "u", "r", "l", "y">>, <<"/", "h", "r">>} :
        Contains(lower(line), marker)

RECURSIVE WithoutHourlyLines(_)
\* the lines that hold no hourly-rate marker, in their order
WithoutHourlyLines(lines) ==
    IF lines = <<>> THEN <<>>
    ELSE IF HasHourlyMarker(Head(lines)) THEN WithoutHourlyLines(Tail(lines))
    ELSE <<Head(lines)>> \o WithoutHourlyLines(Tail(lines))

\* C21: a line with an hourly-rate marker never contributes: the extraction
\* returns what it returns for the description with every such line removed
C21_HourlyLinesIgnored ==
    Extracted =>
        result[1] = _extract_salary_from_description(
                        JoinLines(WithoutHourlyLines(split_lines(args[1]))))

\* an hourly line with a large amount comes first, an annual salary follows
C21_Witness ==
    /\ Extracted
    /\ args[1] = <<"p", "e", "r", " ", "h", "o", "u", "r", " ", "$", "9", "0", ",", "0", "0", "0", "\n", "S", "a", "l", "a", "r", "y", ":", " ", "$", "9", "5", ",", "0", "0", "0">>
    /\ result[1].salary_min = <<95000>>

----------------------------------------------------------------------------
(* Properties of the source adapters *)

\* an adapter has run on its script and deduplicate has been called
FetchDone == fn = "fetch" /\ result # <<>>

\* the requests of the script that are answered 403 or 429
QuotaAnswers(script) ==
    {k \in 1..Len(script) :
        script[k].kind = "response" /\ script[k].status \in {403, 429}}

\* a network error, a timeout or a status that is neither a success nor
\* one of the quota and auth statuses
Transient(resp) ==
    \/ resp.kind = "error"
    \/ RaisesForStatus(resp.status) /\ resp.status \notin {401, 403, 429}

\* the fewest requests the adapter can have sent when it reaches its last
\* query, location or page
LastStepFrom(source) ==
    IF source = "themuse" THEN Len(Locations) ELSE PlannedRequests(source)

\* C22: every job an adapter returns has a str for its title, its company,
\* its location and its description
C22_FieldsPopulated ==
    FetchDone =>
        \A i \in 1..Len(result[1].all_jobs) :
            LET job == result[1].all_jobs[i]
            IN  /\ job.title.kind = "str"
                /\ job.company.kind = "str"
                /\ job.location.kind = "str"
                /\ job.description.kind = "str"

\* C23: no exception leaves the adapter or deduplicate, whatever the items
\* of the responses are
C23_MalformedItemSkipped == FetchDone => ~result[1].aborted

\* C27: when a request the adapter has sent is answered 403 or 429, it is
\* the last request the adapter sends
C27_QuotaStopsSource ==
    FetchDone =>
        LET quota == QuotaAnswers(args[2])
        IN  (quota # {} /\ result[1].requests >= SetMin(quota))
                => result[1].requests = SetMin(quota)

\* C28: the last request an adapter sends is answered by a transient failure
\* only when the adapter was at its last query, location or page (a
\* consequence of the claim: the queries and locations after a transient
\* failure are still asked)
C28_TransientFailureSkipsOneRequest ==
    FetchDone =>
        \A k \in 1..Len(args[2]) :
            (Transient(args[2][k]) /\ result[1].requests = k)
                => k >= LastStepFrom(args[1])

\* C29: a job an adapter returns without salary_min and salary_max has a
\* description in which the extraction cascade finds no salary
C29_SalaryBackfilled ==
    FetchDone =>
        \A i \in 1..Len(result[1].all_jobs) :
            LET job == result[1].all_jobs[i]
            IN  (~TruthyNumber(job.salary_min) /\ ~TruthyNumber(job.salary_max))
                    => ~TruthyNumber(
                           _extract_salary_from_description(job.description.str).salary_min)

====
